---------------------------- MODULE Spec2Model ----------------------------
(***************************************************************************)
(* Account lifecycle and credential issuance of the Philucky               *)
(* authentication server: routes/auth.js (signup, login, check-status)     *)
(* and routes/admin.js (admin login, token middleware, approve, reject,    *)
(* toggle-active, delete, list, stats, verify).                            *)
(*                                                                         *)
(* Strings the code inspects character by character (identifiers, emails,  *)
(* passwords) are sequences of one-character strings, so that toLowerCase, *)
(* includes('@') and length are computed, not assumed.                     *)
(***************************************************************************)
EXTENDS Integers, Sequences, FiniteSets, TLC

VARIABLES
    users,    \* the users collection: account id -> document
    nextId,   \* number of the next account id the store hands out
    admins,   \* the admins collection: admin id -> document
    now,      \* the clock, in days
    settings, \* the settings collection: documents in insertion order
    last,     \* operation and response code of the request handled last
    signups,  \* signups handled step by step: slot -> request and position
    inflight  \* a request of another route between two awaits: position and what it read

vars == <<users, nextId, admins, settings, now, last, signups, inflight>>

---------------------------------------------------------------------------
(* Bounds of the model *)

MaxUsers == 2

MaxNow == 15

MaxLate == 30

---------------------------------------------------------------------------
(* Program constants *)

UserTTLDays == 30

AdminTTLDays == 7

MinPasswordLen == 6

DefaultPort == 3332

DefaultBalance == 0

DemoBalance == 1250

JwtSecret == "JWT_SECRET"

Unset == <<>>

DemoPhone == <<"1","2","3","1","2","3","7","7","7","7">>

DemoEmail == <<"d","e","m","o","@","p","h","i","l","u","c","k","y",".","c","o","m">>

DemoPassword == <<"Q","q","q","w","w","w","8","8","8">>

DemoId == <<"demo-user-id", 0>>

DemoUsername == <<"D","e","m","o"," ","U","s","e","r">>

---------------------------------------------------------------------------
(* Strings *)

LowerChar(c) ==
    CASE c = "A" -> "a"
      [] c = "D" -> "d"
      [] c = "E" -> "e"
      [] c = "M" -> "m"
      [] c = "O" -> "o"
      [] c = "Q" -> "q"
      [] c = "U" -> "u"
      [] c = "X" -> "x"
      [] OTHER -> c

ToLowerCase(s) == [i \in DOMAIN s |-> LowerChar(s[i])]

Includes(s, c) == \E i \in DOMAIN s : s[i] = c

\* express-validator isEmail, as far as the inputs of the model exercise it:
\* one '@' with a local part before it and a dotted domain after it.
IsEmail(s) ==
    \E i \in DOMAIN s :
        /\ s[i] = "@"
        /\ i > 1
        /\ \A j \in DOMAIN s : s[j] = "@" => j = i
        /\ \E k \in DOMAIN s : k > i + 1 /\ k < Len(s) /\ s[k] = "."

---------------------------------------------------------------------------
(* Identities *)

Uid(n) == <<"user", n>>

Aid(n) == <<"admin", n>>

UserNo(id) == id[2]

---------------------------------------------------------------------------
(* models/User: schema defaults, password hashing, lookups *)

\* The pre-save hook stores a salted one-way hash, never the plaintext.
HashPassword(pw) == <<"bcrypt">> \o pw

\* user.comparePassword(candidate)
ComparePassword(doc, candidate) == doc.password = HashPassword(candidate)

\* User.create(fields): the pre-save hook hashes the password, the schema
\* supplies isActive, balance and lastLogin.
NewUser(id, fields) ==
    [ id        |-> id,
      phone     |-> fields.phone,
      email     |-> fields.email,
      password  |-> HashPassword(fields.password),
      username  |-> fields.username,
      status    |-> fields.status,
      isActive  |-> TRUE,
      balance   |-> DefaultBalance,
      lastLogin |-> Unset ]

\* User.findOne(query): the first matching document in insertion order.
FirstOf(us, ids) ==
    IF ids = {} THEN Unset
    ELSE <<us[CHOOSE i \in ids : \A j \in ids : UserNo(i) <= UserNo(j)]>>

FindByPhone(us, phone) == FirstOf(us, {i \in DOMAIN us : us[i].phone = phone})

FindByEmail(us, email) == FirstOf(us, {i \in DOMAIN us : us[i].email = email})

\* User.findById(id)
FindById(us, id) == IF id \in DOMAIN us THEN <<us[id]>> ELSE Unset

\* doc.save(): the document replaces the stored one with the same id.
Save(us, doc) == [us EXCEPT ![doc.id] = doc]

\* What the store throws on a write that breaks a unique index.
DuplicateKey(field) ==
    [name |-> "MongoServerError", code |-> 11000, field |-> field,
     message |-> "E11000 duplicate key error"]

\* User.create(fields) on the collection with its unique indexes on phone
\* and on email: the collection with the new document, or the duplicate
\* key error thrown.
CreateUser(us, nid, fields) ==
    IF \E i \in DOMAIN us : us[i].phone = fields.phone
    THEN [ok |-> FALSE, error |-> DuplicateKey("phone")]
    ELSE IF fields.email # Unset /\ \E i \in DOMAIN us : us[i].email = fields.email
    THEN [ok |-> FALSE, error |-> DuplicateKey("email")]
    ELSE [ok |-> TRUE, doc |-> NewUser(Uid(nid), fields),
          users |-> (Uid(nid) :> NewUser(Uid(nid), fields)) @@ us]

---------------------------------------------------------------------------
(* Token service: jsonwebtoken sign / verify *)

JwtSign(payload, secret, ttl, t) ==
    [kind |-> "jwt", payload |-> payload, iat |-> t, exp |-> t + ttl, sig |-> secret]

\* jwt.verify without the expiry check.
JwtVerifyIgnoresExpiry(token, secret, t) ==
    IF token.kind # "jwt" THEN Unset
    ELSE IF token.sig # secret THEN Unset
    ELSE <<token.payload>>

\* jwt.verify: <<payload>> when the token is well formed, signed with the
\* secret and not expired; Unset when it throws.
JwtVerify(token, secret, t) ==
    IF token.kind # "jwt" THEN Unset
    ELSE IF token.sig # secret THEN Unset
    ELSE IF t >= token.exp THEN Unset
    ELSE <<token.payload>>

\* process.env.JWT_EXPIRE: not set.
EnvJwtExpire == Unset

\* process.env.JWT_EXPIRE || default
ExpiresIn(env, default) == IF env # Unset THEN env[1] ELSE default

\* routes/auth.js generateToken
GenerateUserToken(userId, t) ==
    JwtSign([id |-> userId], JwtSecret, ExpiresIn(EnvJwtExpire, UserTTLDays), t)

\* An admin token signed the way user tokens are.
GenerateAdminTokenAsUser(adminId, t) == GenerateUserToken(adminId, t)

\* routes/admin.js generateToken
GenerateAdminToken(adminId, t) ==
    JwtSign([id |-> adminId, isAdmin |-> TRUE], JwtSecret,
            ExpiresIn(EnvJwtExpire, AdminTTLDays), t)

---------------------------------------------------------------------------
(* models/Settings and the process environment *)

\* process.env.WEBVIEW_URL: not set.
EnvWebViewUrl == Unset

\* process.env.PORT || 3332
Port == DefaultPort

\* `http://localhost:${port}/app-guide`; a URL is <<scheme, rest>>.
AppGuideUrl(port) == <<"http:", <<"//localhost:", port, "/app-guide">>>>

\* Settings.findOne({ key })
FindSetting(st, key) ==
    LET at == {i \in DOMAIN st : st[i].key = key}
    IN  IF at = {} THEN Unset ELSE <<st[CHOOSE i \in at : \A j \in at : i <= j]>>

\* A create on a collection without the unique index on key.
CreateSettingUnindexed(st, t, key, value, description, updatedBy) ==
    [ok |-> TRUE,
     settings |-> Append(st, [key |-> key, value |-> value,
                              description |-> description,
                              updatedAt |-> t, updatedBy |-> updatedBy])]

\* Settings.create(fields): the pre-save hook stamps updatedAt; the unique
\* index on key refuses a second document with the key.
CreateSetting(st, t, key, value, description, updatedBy) ==
    IF FindSetting(st, key) # Unset
    THEN [ok |-> FALSE, settings |-> st]
    ELSE [ok |-> TRUE,
          settings |-> Append(st, [key |-> key, value |-> value,
                                   description |-> description,
                                   updatedAt |-> t, updatedBy |-> updatedBy])]

\* setting.save() of a document found by key
SaveSetting(st, t, doc) ==
    [i \in DOMAIN st |->
        IF st[i].key = doc.key THEN [doc EXCEPT !.updatedAt = t] ELSE st[i]]

\* await Settings.findOne({ key }): the document found, or the lookup
\* throwing when the store is down.
Lookup(st, key, down) ==
    IF down THEN [ok |-> FALSE] ELSE [ok |-> TRUE, setting |-> FindSetting(st, key)]

\* A resolver that asks the environment before the store.
WebViewUrlOfEnvFirst(lookup, env, port) ==
    IF env # Unset THEN env
    ELSE IF lookup.ok /\ lookup.setting # Unset /\ lookup.setting[1].value # Unset
    THEN lookup.setting[1].value
    ELSE AppGuideUrl(port)

\* The body of getWebViewUrl on the outcome of the lookup: the try block
\* returns the persisted value, else the environment's, else the port's
\* app-guide route; the catch block returns the environment's value or the
\* port's app-guide route.
WebViewUrlOf(lookup, env, port) ==
    IF ~lookup.ok
    THEN IF env # Unset THEN env ELSE AppGuideUrl(port)
    ELSE IF lookup.setting # Unset /\ lookup.setting[1].value # Unset
    THEN lookup.setting[1].value
    ELSE IF env # Unset THEN env
    ELSE AppGuideUrl(port)

\* getWebViewUrl with the store up and the process environment as set.
GetWebViewUrl(st) ==
    WebViewUrlOf(Lookup(st, "webViewUrl", FALSE), EnvWebViewUrl, Port)

---------------------------------------------------------------------------
(* Auth gateway: routes/auth.js *)

\* The validation chain with the password checked before the phone.
SignupErrorsPasswordFirst(req) ==
    (IF Len(req.password) < MinPasswordLen
     THEN <<"Password must be at least 6 characters">> ELSE <<>>)
    \o (IF req.phone = Unset THEN <<"Phone number is required">> ELSE <<>>)
    \o (IF req.email # Unset /\ ~IsEmail(req.email)
        THEN <<"Invalid email format">> ELSE <<>>)

\* The validation chain of POST /signup; the messages in chain order.
SignupErrors(req) ==
    (IF req.phone = Unset THEN <<"Phone number is required">> ELSE <<>>)
    \o (IF Len(req.password) < MinPasswordLen
        THEN <<"Password must be at least 6 characters">> ELSE <<>>)
    \o (IF req.email # Unset /\ ~IsEmail(req.email)
        THEN <<"Invalid email format">> ELSE <<>>)

\* The phone check finding nothing.
ExistingPhoneSkipped(us, phone) == Unset

\* The email check made on the email as typed.
ExistingEmailAsTyped(us, email) == FindByEmail(us, email)

\* existingPhone: User.findOne({ phone })
ExistingPhone(us, phone) == FindByPhone(us, phone)

\* existingEmail: User.findOne({ email: email.toLowerCase() })
ExistingEmail(us, email) == FindByEmail(us, ToLowerCase(email))

\* A signup that files the account under a status of its own.
SignupFieldsAsNew(req) ==
    [phone    |-> req.phone,
     email    |-> IF req.email # Unset THEN ToLowerCase(req.email) ELSE Unset,
     password |-> req.password,
     username |-> IF req.username # Unset THEN req.username ELSE req.phone,
     status   |-> "new"]

\* The fields POST /signup hands to User.create.
SignupFields(req) ==
    [phone    |-> req.phone,
     email    |-> IF req.email # Unset THEN ToLowerCase(req.email) ELSE Unset,
     password |-> req.password,
     username |-> IF req.username # Unset THEN req.username ELSE req.phone,
     status   |-> "pending"]

\* POST /api/auth/signup. The result holds the collection after the
\* request and the response.
Signup(us, nid, req) ==
    LET errors == SignupErrors(req)
        doc    == NewUser(Uid(nid), SignupFields(req))
    IN  IF errors # <<>>
        THEN [users |-> us, nextId |-> nid,
              resp |-> [code |-> 400, success |-> FALSE, message |-> errors[1]]]
        ELSE IF ExistingPhone(us, req.phone) # Unset
        THEN [users |-> us, nextId |-> nid,
              resp |-> [code |-> 400, success |-> FALSE,
                        message |-> "Phone number already registered"]]
        ELSE IF req.email # Unset /\ ExistingEmail(us, req.email) # Unset
        THEN [users |-> us, nextId |-> nid,
              resp |-> [code |-> 400, success |-> FALSE,
                        message |-> "Email already registered"]]
        ELSE [users |-> (Uid(nid) :> doc) @@ us, nextId |-> nid + 1,
              resp |-> [code |-> 201, success |-> TRUE,
                        message |-> "Registration successful! Your account is pending approval.",
                        data |-> [userId |-> doc.id, phone |-> doc.phone,
                                  email |-> doc.email, username |-> doc.username,
                                  status |-> doc.status]]]

\* The demo branch of POST /login: decided on the request alone.
IsDemoLogin(req) ==
    /\ (req.identifier = DemoPhone \/ req.identifier = DemoEmail)
    /\ req.password = DemoPassword

DemoResponse(t) ==
    [code |-> 200, success |-> TRUE, message |-> "Login successful",
     isDemo |-> TRUE, showGames |-> TRUE,
     data |-> [token |-> GenerateUserToken(DemoId, t),
               user |-> [id |-> DemoId, phone |-> DemoPhone,
                         username |-> DemoUsername, email |-> DemoEmail,
                         balance |-> DemoBalance, status |-> "demo"]]]

\* A lookup that matches the email as typed.
FindByIdentifierAsTyped(us, identifier) ==
    IF Includes(identifier, "@")
    THEN FindByEmail(us, identifier)
    ELSE FindByPhone(us, identifier)

\* User.findOne(query) of login and check-status: by email when the
\* identifier holds '@', by phone otherwise.
FindByIdentifier(us, identifier) ==
    IF Includes(identifier, "@")
    THEN FindByEmail(us, ToLowerCase(identifier))
    ELSE FindByPhone(us, identifier)

LoginErrors(req) ==
    (IF req.identifier = Unset THEN <<"Phone number or email is required">> ELSE <<>>)
    \o (IF req.password = Unset THEN <<"Password is required">> ELSE <<>>)

\* A not-found response that tells the caller the identifier is unknown.
UserNotFoundTold ==
    [code |-> 404, success |-> FALSE, message |-> "User not found"]

\* The response to an identifier no account matches.
UserNotFound ==
    [code |-> 401, success |-> FALSE, message |-> "Invalid credentials"]

\* The response to a password that does not match.
PasswordMismatch ==
    [code |-> 401, success |-> FALSE, message |-> "Invalid credentials"]

\* Gating without the isActive check.
GatingIgnoresActive(user) ==
    IF user.status = "pending"
    THEN <<[code |-> 403, success |-> FALSE,
            message |-> "Your account is pending approval. Please wait for admin approval.",
            status |-> "pending"]>>
    ELSE IF user.status = "rejected"
    THEN <<[code |-> 403, success |-> FALSE,
            message |-> "Your account has been rejected. Please contact support.",
            status |-> "rejected"]>>
    ELSE Unset

\* Gating with the isActive check made first.
GatingActiveFirst(user) ==
    IF ~user.isActive
    THEN <<[code |-> 403, success |-> FALSE,
            message |-> "Your account has been deactivated. Please contact support."]>>
    ELSE GatingIgnoresActive(user)

\* The status checks of POST /login on the account found: <<response>> when
\* the login is refused, Unset when it goes through.
Gating(user) ==
    IF user.status = "pending"
    THEN <<[code |-> 403, success |-> FALSE,
            message |-> "Your account is pending approval. Please wait for admin approval.",
            status |-> "pending"]>>
    ELSE IF user.status = "rejected"
    THEN <<[code |-> 403, success |-> FALSE,
            message |-> "Your account has been rejected. Please contact support.",
            status |-> "rejected"]>>
    ELSE IF ~user.isActive
    THEN <<[code |-> 403, success |-> FALSE,
            message |-> "Your account has been deactivated. Please contact support."]>>
    ELSE Unset

\* A login that credits the account a bonus.
RecordLoginCredits(user, t) ==
    [user EXCEPT !.lastLogin = <<t>>, !.balance = user.balance + 1]

\* A login that keeps the time of the first login.
RecordLoginOnce(user, t) ==
    IF user.lastLogin = Unset THEN [user EXCEPT !.lastLogin = <<t>>] ELSE user

\* user.lastLogin = Date.now()
RecordLogin(user, t) == [user EXCEPT !.lastLogin = <<t>>]

\* POST /api/auth/login, given what getWebViewUrl returns.
LoginWith(us, webViewUrl, t, req) ==
    LET errors == LoginErrors(req)
        found  == FindByIdentifier(us, req.identifier)
        user   == found[1]
        saved  == RecordLogin(user, t)
    IN  IF errors # <<>>
        THEN [users |-> us,
              resp |-> [code |-> 400, success |-> FALSE, message |-> errors[1]]]
        ELSE IF IsDemoLogin(req)
        THEN [users |-> us, resp |-> DemoResponse(t)]
        ELSE IF found = Unset
        THEN [users |-> us, resp |-> UserNotFound]
        ELSE IF ~ComparePassword(user, req.password)
        THEN [users |-> us, resp |-> PasswordMismatch]
        ELSE IF Gating(user) # Unset
        THEN [users |-> us, resp |-> Gating(user)[1]]
        ELSE [users |-> Save(us, saved),
              resp |-> [code |-> 200, success |-> TRUE, message |-> "Login successful",
                        isDemo |-> FALSE, showGames |-> FALSE,
                        data |-> [token |-> GenerateUserToken(saved.id, t),
                                  user |-> [id |-> saved.id, phone |-> saved.phone,
                                            username |-> saved.username,
                                            email |-> saved.email,
                                            balance |-> saved.balance,
                                            status |-> saved.status],
                                  webViewUrl |-> webViewUrl]]]

\* POST /api/auth/login with the store up.
Login(us, st, t, req) == LoginWith(us, GetWebViewUrl(st), t, req)

\* A status check that knows active accounts only.
CheckStatusActiveOnly(us, identifier) ==
    LET found == FindByIdentifier(us, identifier)
        user  == found[1]
    IN  IF found = Unset \/ ~user.isActive
        THEN [users |-> us,
              resp |-> [code |-> 404, success |-> FALSE, message |-> "User not found"]]
        ELSE [users |-> us,
              resp |-> [code |-> 200, success |-> TRUE,
                        data |-> [phone |-> user.phone, email |-> user.email,
                                  username |-> user.username, status |-> user.status,
                                  isActive |-> user.isActive]]]

\* GET /api/auth/check-status/:identifier
CheckStatus(us, identifier) ==
    LET found == FindByIdentifier(us, identifier)
        user  == found[1]
    IN  IF found = Unset
        THEN [users |-> us,
              resp |-> [code |-> 404, success |-> FALSE, message |-> "User not found"]]
        ELSE [users |-> us,
              resp |-> [code |-> 200, success |-> TRUE,
                        data |-> [phone |-> user.phone, email |-> user.email,
                                  username |-> user.username, status |-> user.status,
                                  isActive |-> user.isActive]]]

---------------------------------------------------------------------------
(* Admin gateway: routes/admin.js *)

Unauthorized ==
    [code |-> 401, success |-> FALSE, message |-> "Not authorized to access this route"]

\* A middleware that takes the token's word for the admin.
VerifyAdminTokenTrusting(adms, t, token) ==
    LET decoded == JwtVerify(token, JwtSecret, t)
        payload == decoded[1]
    IN  IF token.kind = "none"
        THEN [next |-> FALSE, resp |-> Unauthorized]
        ELSE IF decoded = Unset
        THEN [next |-> FALSE, resp |-> Unauthorized]
        ELSE IF ~("isAdmin" \in DOMAIN payload /\ payload.isAdmin)
        THEN [next |-> FALSE,
              resp |-> [code |-> 403, success |-> FALSE,
                        message |-> "Not authorized as admin"]]
        ELSE [next |-> TRUE,
              admin |-> IF payload.id \in DOMAIN adms THEN adms[payload.id]
                        ELSE [id |-> payload.id, username |-> Unset, email |-> Unset,
                              role |-> "admin", isActive |-> TRUE]]

\* The verifyAdminToken middleware: next() with req.admin set, or the
\* response that ends the request.
VerifyAdminToken(adms, t, token) ==
    LET decoded == JwtVerify(token, JwtSecret, t)
        payload == decoded[1]
    IN  IF token.kind = "none"
        THEN [next |-> FALSE, resp |-> Unauthorized]
        ELSE IF decoded = Unset
        THEN [next |-> FALSE, resp |-> Unauthorized]
        ELSE IF ~("isAdmin" \in DOMAIN payload /\ payload.isAdmin)
        THEN [next |-> FALSE,
              resp |-> [code |-> 403, success |-> FALSE,
                        message |-> "Not authorized as admin"]]
        ELSE IF ~(payload.id \in DOMAIN adms /\ adms[payload.id].isActive)
        THEN [next |-> FALSE,
              resp |-> [code |-> 401, success |-> FALSE,
                        message |-> "Admin account not found or inactive"]]
        ELSE [next |-> TRUE, admin |-> adms[payload.id]]

NotFound == [code |-> 404, success |-> FALSE, message |-> "User not found"]

\* An approval that only a pending account accepts.
ApprovedFromPendingOnly(user, body) ==
    IF user.status = "pending" THEN [user EXCEPT !.status = "approved"] ELSE user

\* A role check that lets every admin through.
NotSuperAdminNever(admin) == FALSE

\* user.status = 'approved'
Approved(user, body) == [user EXCEPT !.status = "approved"]

\* A rejection that also suspends the account.
RejectedDeactivates(user, body) ==
    [user EXCEPT !.status = "rejected", !.isActive = FALSE]

\* user.status = 'rejected'
Rejected(user, body) == [user EXCEPT !.status = "rejected"]

\* A switch that only suspends.
ToggledOff(user) == [user EXCEPT !.isActive = FALSE]

\* A reactivation that sends the account back to pending.
ToggledResetsStatus(user) ==
    [user EXCEPT !.isActive = ~user.isActive,
                 !.status = IF user.isActive THEN user.status ELSE "pending"]

\* user.isActive = !user.isActive
Toggled(user) == [user EXCEPT !.isActive = ~user.isActive]

\* req.admin.role !== 'super_admin'
NotSuperAdmin(admin) == admin.role # "super_admin"

UserSummary(user) ==
    [id |-> user.id, phone |-> user.phone, email |-> user.email,
     username |-> user.username, status |-> user.status]

\* PUT /api/admin/users/:userId/approve. The handler never reads req.body.
ApproveUser(us, adms, t, token, userId, body) ==
    LET auth  == VerifyAdminToken(adms, t, token)
        found == FindById(us, userId)
        saved == Approved(found[1], body)
    IN  IF ~auth.next THEN [users |-> us, resp |-> auth.resp]
        ELSE IF found = Unset THEN [users |-> us, resp |-> NotFound]
        ELSE [users |-> Save(us, saved),
              resp |-> [code |-> 200, success |-> TRUE,
                        message |-> "User approved successfully",
                        data |-> [user |-> UserSummary(saved)]]]

\* PUT /api/admin/users/:userId/reject. The handler never reads req.body.
RejectUser(us, adms, t, token, userId, body) ==
    LET auth  == VerifyAdminToken(adms, t, token)
        found == FindById(us, userId)
        saved == Rejected(found[1], body)
    IN  IF ~auth.next THEN [users |-> us, resp |-> auth.resp]
        ELSE IF found = Unset THEN [users |-> us, resp |-> NotFound]
        ELSE [users |-> Save(us, saved),
              resp |-> [code |-> 200, success |-> TRUE,
                        message |-> "User rejected successfully",
                        data |-> [user |-> UserSummary(saved)]]]

\* A toggle that reports success on an id that names no account.
ToggleActiveLenient(us, adms, t, token, userId) ==
    LET auth  == VerifyAdminToken(adms, t, token)
        found == FindById(us, userId)
        saved == Toggled(found[1])
    IN  IF ~auth.next THEN [users |-> us, resp |-> auth.resp]
        ELSE IF found = Unset
        THEN [users |-> us,
              resp |-> [code |-> 200, success |-> TRUE,
                        message |-> "User deactivated successfully"]]
        ELSE [users |-> Save(us, saved),
              resp |-> [code |-> 200, success |-> TRUE,
                        message |-> IF saved.isActive
                                    THEN "User activated successfully"
                                    ELSE "User deactivated successfully",
                        data |-> [user |-> UserSummary(saved) @@
                                           [isActive |-> saved.isActive]]]]

\* PUT /api/admin/users/:userId/toggle-active
ToggleActive(us, adms, t, token, userId) ==
    LET auth  == VerifyAdminToken(adms, t, token)
        found == FindById(us, userId)
        saved == Toggled(found[1])
    IN  IF ~auth.next THEN [users |-> us, resp |-> auth.resp]
        ELSE IF found = Unset THEN [users |-> us, resp |-> NotFound]
        ELSE [users |-> Save(us, saved),
              resp |-> [code |-> 200, success |-> TRUE,
                        message |-> IF saved.isActive
                                    THEN "User activated successfully"
                                    ELSE "User deactivated successfully",
                        data |-> [user |-> UserSummary(saved) @@
                                           [isActive |-> saved.isActive]]]]

\* A delete that suspends the account and keeps the document.
DeleteUserSoft(us, adms, t, token, userId) ==
    LET auth == VerifyAdminToken(adms, t, token)
    IN  IF ~auth.next THEN [users |-> us, resp |-> auth.resp]
        ELSE IF NotSuperAdmin(auth.admin)
        THEN [users |-> us,
              resp |-> [code |-> 403, success |-> FALSE,
                        message |-> "Only super admins can delete users"]]
        ELSE IF FindById(us, userId) = Unset THEN [users |-> us, resp |-> NotFound]
        ELSE [users |-> [us EXCEPT ![userId].isActive = FALSE],
              resp |-> [code |-> 200, success |-> TRUE,
                        message |-> "User deleted successfully"]]

\* DELETE /api/admin/users/:userId
DeleteUser(us, adms, t, token, userId) ==
    LET auth == VerifyAdminToken(adms, t, token)
    IN  IF ~auth.next THEN [users |-> us, resp |-> auth.resp]
        ELSE IF NotSuperAdmin(auth.admin)
        THEN [users |-> us,
              resp |-> [code |-> 403, success |-> FALSE,
                        message |-> "Only super admins can delete users"]]
        ELSE IF FindById(us, userId) = Unset THEN [users |-> us, resp |-> NotFound]
        ELSE [users |-> [i \in DOMAIN us \ {userId} |-> us[i]],
              resp |-> [code |-> 200, success |-> TRUE,
                        message |-> "User deleted successfully"]]

\* The server's 404 handler, reached when no route matches.
RouteNotFound == [code |-> 404, success |-> FALSE, message |-> "Route not found"]

\* PUT /api/admin/users/:userId/balance. The root route and the README
\* announce it; the admin router defines no such route, so the request
\* passes every router and ends in the 404 handler.
SetBalance(us, adms, t, token, userId, amount) ==
    [users |-> us, resp |-> RouteNotFound]

\* Admin.findOne({ username })
FindAdmin(adms, username) ==
    LET ids == {a \in DOMAIN adms : adms[a].username = username}
    IN  IF ids = {} THEN Unset ELSE <<adms[CHOOSE a \in ids : TRUE]>>

\* An activity check that lets every admin in.
AdminInactiveNever(admin) == FALSE

\* !admin.isActive
AdminInactive(admin) == ~admin.isActive

AdminLoginErrors(req) ==
    (IF req.username = Unset THEN <<"Username is required">> ELSE <<>>)
    \o (IF req.password = Unset THEN <<"Password is required">> ELSE <<>>)

\* POST /api/admin/login
AdminLogin(adms, t, req) ==
    LET errors == AdminLoginErrors(req)
        found  == FindAdmin(adms, req.username)
        admin  == found[1]
        saved  == [admin EXCEPT !.lastLogin = <<t>>]
    IN  IF errors # <<>>
        THEN [admins |-> adms,
              resp |-> [code |-> 400, success |-> FALSE, message |-> errors[1]]]
        ELSE IF found = Unset
        THEN [admins |-> adms,
              resp |-> [code |-> 401, success |-> FALSE, message |-> "Invalid credentials"]]
        ELSE IF ~ComparePassword(admin, req.password)
        THEN [admins |-> adms,
              resp |-> [code |-> 401, success |-> FALSE, message |-> "Invalid credentials"]]
        ELSE IF AdminInactive(admin)
        THEN [admins |-> adms,
              resp |-> [code |-> 403, success |-> FALSE,
                        message |-> "Admin account is inactive"]]
        ELSE [admins |-> [adms EXCEPT ![saved.id] = saved],
              resp |-> [code |-> 200, success |-> TRUE, message |-> "Login successful",
                        data |-> [token |-> GenerateAdminToken(saved.id, t),
                                  admin |-> [id |-> saved.id,
                                             username |-> saved.username,
                                             email |-> saved.email,
                                             role |-> saved.role]]]]

\* A projection that keeps every field.
WithEveryField(doc) == doc

\* .select('-password')
WithoutPassword(doc) == [f \in DOMAIN doc \ {"password"} |-> doc[f]]

\* .sort({ createdAt: -1 }): newest first; ids are handed out in creation order.
RECURSIVE NewestFirst(_, _)
NewestFirst(us, ids) ==
    IF ids = {} THEN <<>>
    ELSE LET newest == CHOOSE i \in ids : \A j \in ids : UserNo(j) <= UserNo(i)
         IN  <<WithoutPassword(us[newest])>> \o NewestFirst(us, ids \ {newest})

\* .limit(limit).skip((page - 1) * limit)
Page(list, page, limit) ==
    LET from == (page - 1) * limit + 1
        to   == IF page * limit < Len(list) THEN page * limit ELSE Len(list)
    IN  IF from > Len(list) THEN <<>> ELSE SubSeq(list, from, to)

\* Math.ceil(total / limit)
CeilDiv(a, b) == (a + b - 1) \div b

\* GET /api/admin/users
ListUsers(us, adms, t, token, query) ==
    LET auth  == VerifyAdminToken(adms, t, token)
        ids   == {i \in DOMAIN us : query.status = Unset \/ <<us[i].status>> = query.status}
    IN  IF ~auth.next THEN [users |-> us, resp |-> auth.resp]
        ELSE [users |-> us,
              resp |-> [code |-> 200, success |-> TRUE,
                        data |-> [users |-> Page(NewestFirst(us, ids), query.page, query.limit),
                                  currentPage |-> query.page,
                                  totalPages |-> CeilDiv(Cardinality(ids), query.limit),
                                  totalUsers |-> Cardinality(ids)]]]

\* User.countDocuments(filter)
Count(us, Filter(_)) == Cardinality({i \in DOMAIN us : Filter(us[i])})

\* GET /api/admin/stats
Stats(us, adms, t, token) ==
    LET auth == VerifyAdminToken(adms, t, token)
        IsAll(u)      == TRUE
        IsPending(u)  == u.status = "pending"
        IsApproved(u) == u.status = "approved"
        IsRejected(u) == u.status = "rejected"
        IsActive(u)   == u.isActive /\ u.status = "approved"
    IN  IF ~auth.next THEN [users |-> us, resp |-> auth.resp]
        ELSE [users |-> us,
              resp |-> [code |-> 200, success |-> TRUE,
                        data |-> [totalUsers    |-> Count(us, IsAll),
                                  pendingUsers  |-> Count(us, IsPending),
                                  approvedUsers |-> Count(us, IsApproved),
                                  rejectedUsers |-> Count(us, IsRejected),
                                  activeUsers   |-> Count(us, IsActive)]]]

\* GET /api/admin/verify
Verify(us, adms, t, token) ==
    LET auth == VerifyAdminToken(adms, t, token)
    IN  IF ~auth.next THEN [users |-> us, resp |-> auth.resp]
        ELSE [users |-> us,
              resp |-> [code |-> 200, success |-> TRUE,
                        data |-> [admin |-> [id |-> auth.admin.id,
                                             username |-> auth.admin.username,
                                             email |-> auth.admin.email,
                                             role |-> auth.admin.role]]]]

WebViewDescription == "URL shown in mobile app WebView after login"

SettingView(doc) ==
    [value |-> doc.value, description |-> doc.description, updatedAt |-> doc.updatedAt]

\* settingsObj: key -> view of the last document with the key
SettingsObj(st) ==
    [k \in {st[i].key : i \in DOMAIN st} |->
        SettingView(st[CHOOSE i \in DOMAIN st :
                          st[i].key = k /\ \A j \in DOMAIN st : st[j].key = k => j <= i])]

\* GET /api/admin/settings
GetSettings(st, adms, t, token) ==
    LET auth    == VerifyAdminToken(adms, t, token)
        obj     == SettingsObj(st)
        default == IF EnvWebViewUrl # Unset THEN EnvWebViewUrl ELSE AppGuideUrl(Port)
        made    == CreateSetting(st, t, "webViewUrl", default, WebViewDescription,
                                 auth.admin.id)
        new     == made.settings[Len(made.settings)]
    IN  IF ~auth.next THEN [settings |-> st, resp |-> auth.resp]
        ELSE IF "webViewUrl" \in DOMAIN obj
        THEN [settings |-> st,
              resp |-> [code |-> 200, success |-> TRUE, data |-> obj]]
        ELSE IF ~made.ok
        THEN [settings |-> st,
              resp |-> [code |-> 500, success |-> FALSE,
                        message |-> "Error fetching settings"]]
        ELSE [settings |-> made.settings,
              resp |-> [code |-> 200, success |-> TRUE,
                        data |-> [k \in DOMAIN obj \cup {"webViewUrl"} |->
                                     IF k = "webViewUrl" THEN SettingView(new)
                                     ELSE obj[k]]]]

\* new URL(url) does not throw: the string starts with a scheme.
IsUrl(url) == Len(url) = 2 /\ url[1] # ""

\* PUT /api/admin/settings/webview-url
PutWebViewUrl(st, adms, t, token, url) ==
    LET auth  == VerifyAdminToken(adms, t, token)
        found == FindSetting(st, "webViewUrl")
        saved == [found[1] EXCEPT !.value = url, !.updatedBy = auth.admin.id]
        made  == CreateSetting(st, t, "webViewUrl", url, WebViewDescription,
                               auth.admin.id)
        after == IF found # Unset THEN SaveSetting(st, t, saved) ELSE made.settings
        now1  == FindSetting(after, "webViewUrl")[1]
    IN  IF ~auth.next THEN [settings |-> st, resp |-> auth.resp]
        ELSE IF url = Unset
        THEN [settings |-> st,
              resp |-> [code |-> 400, success |-> FALSE, message |-> "URL is required"]]
        ELSE IF ~IsUrl(url)
        THEN [settings |-> st,
              resp |-> [code |-> 400, success |-> FALSE, message |-> "Invalid URL format"]]
        ELSE IF found = Unset /\ ~made.ok
        THEN [settings |-> st,
              resp |-> [code |-> 500, success |-> FALSE,
                        message |-> "Error updating WebView URL"]]
        ELSE [settings |-> after,
              resp |-> [code |-> 200, success |-> TRUE,
                        message |-> "WebView URL updated successfully",
                        data |-> [url |-> now1.value, updatedAt |-> now1.updatedAt]]]

---------------------------------------------------------------------------
(* The handlers when a store operation throws *)

\* What the driver throws when the store cannot be reached.
StoreUnreachable ==
    [name |-> "MongoNetworkError", code |-> 0,
     message |-> "connect ECONNREFUSED 127.0.0.1:27017"]

\* A catch block that knows no duplicate key error.
SignupCatchGeneric(error) ==
    IF error.name = "ValidationError"
    THEN [code |-> 400, success |-> FALSE, message |-> error.message]
    ELSE [code |-> 500, success |-> FALSE,
          message |-> "Server error during registration", error |-> error.message]

\* The catch block of POST /signup.
SignupCatch(error) ==
    IF error.name = "ValidationError"
    THEN [code |-> 400, success |-> FALSE, message |-> error.message]
    ELSE IF error.code = 11000
    THEN [code |-> 400, success |-> FALSE,
          message |-> IF error.field = "phone" THEN "Phone already registered"
                      ELSE "Email already registered"]
    ELSE [code |-> 500, success |-> FALSE,
          message |-> "Server error during registration", error |-> error.message]

\* The catch blocks of POST /login and GET /check-status.
AuthCatch(message, error) ==
    [code |-> 500, success |-> FALSE, message |-> message, error |-> error.message]

\* The catch blocks of the admin routes.
AdminCatch(message) == [code |-> 500, success |-> FALSE, message |-> message]

\* POST /signup with its first store operation throwing: validation has
\* returned before, nothing was written.
SignupFailing(us, nid, req, error) ==
    IF SignupErrors(req) # <<>> THEN Signup(us, nid, req)
    ELSE [users |-> us, nextId |-> nid, resp |-> SignupCatch(error)]

\* POST /login with User.findOne throwing: validation and the demo branch
\* come before it.
LoginFailing(us, st, t, req, error) ==
    IF LoginErrors(req) # <<>> \/ IsDemoLogin(req) THEN Login(us, st, t, req)
    ELSE [users |-> us, resp |-> AuthCatch("Server error during login", error)]

\* GET /check-status with User.findOne throwing.
CheckStatusFailing(us, identifier, error) ==
    [users |-> us, resp |-> AuthCatch("Server error", error)]

\* POST /api/admin/login with Admin.findOne throwing.
AdminLoginFailing(adms, t, req, error) ==
    IF AdminLoginErrors(req) # <<>> THEN AdminLogin(adms, t, req)
    ELSE [admins |-> adms, resp |-> AdminCatch("Server error during login")]

\* verifyAdminToken with Admin.findById throwing: the token checks come
\* before the lookup, the catch block answers as for a bad token.
VerifyAdminTokenFailing(adms, t, token, error) ==
    LET auth == VerifyAdminToken(adms, t, token)
    IN  IF ~auth.next /\ auth.resp.message # "Admin account not found or inactive"
        THEN auth
        ELSE [next |-> FALSE, resp |-> Unauthorized]

\* PUT /users/:userId/approve with a store operation throwing: in the
\* middleware, or in the handler behind it.
ApproveUserFailing(us, adms, t, token, userId, at, error) ==
    LET auth == IF at = "middleware" THEN VerifyAdminTokenFailing(adms, t, token, error)
                ELSE VerifyAdminToken(adms, t, token)
    IN  IF ~auth.next THEN [users |-> us, resp |-> auth.resp]
        ELSE [users |-> us, resp |-> AdminCatch("Error approving user")]

---------------------------------------------------------------------------
(* Requests the clients send *)

Phone1 == <<"5","5","5">>

EmailLower == <<"a","@","x",".","i","o">>

EmailUpper == <<"A","@","X",".","i","o">>

BadEmail == <<"a","x">>

Password1 == <<"a","b","c","d","e","f">>

ShortPassword == <<"a","b","c">>

WrongPassword == <<"z","z","z","z","z","z">>

Name1 == <<"n","e","o">>

AdminPassword == <<"A","d","m","i","n","@","1","2","3">>

\* Phone1 signs up without a username, the other phone with one.
SignupRequests ==
    [phone : {Phone1}, email : {Unset, EmailLower, EmailUpper},
     password : {Password1}, username : {Unset}]
    \cup [phone : {DemoPhone}, email : {Unset, EmailLower, EmailUpper},
          password : {Password1}, username : {Name1}]
    \cup [phone : {Unset, Phone1}, email : {Unset},
          password : {ShortPassword}, username : {Unset}]
    \cup [phone : {Unset, Phone1}, email : {BadEmail},
          password : {Password1}, username : {Unset}]
    \cup [phone : {Unset}, email : {Unset},
          password : {Password1}, username : {Unset}]

\* The requests of the clock specification: one phone, no email.
ClockSignupRequests ==
    [phone : {Phone1}, email : {Unset}, password : {Password1}, username : {Unset}]

\* The requests of the admin specification: two phones, no email.
AdminSignupRequests ==
    [phone : {Phone1, DemoPhone}, email : {Unset}, password : {Password1},
     username : {Unset}]

LoginRequests ==
    [identifier : {Phone1, DemoPhone, EmailLower, EmailUpper, DemoEmail},
     password   : {Password1, WrongPassword, DemoPassword}]
    \cup [identifier : {Unset, Phone1}, password : {Unset}]
    \cup [identifier : {Unset}, password : {Password1}]

ClockLoginRequests ==
    [identifier : {Phone1, DemoPhone}, password : {Password1, DemoPassword}]

AdminLoginRequests ==
    [username : {<<"admin">>, <<"mod">>, <<"old">>, <<"ghost">>},
     password : {AdminPassword, WrongPassword}]
    \cup [username : {Unset, <<"admin">>}, password : {Unset, AdminPassword}]
    \cup [username : {DemoPhone, DemoEmail}, password : {DemoPassword}]

\* Account ids a request can name: every id handed out so far and the next.
UserIds == {Uid(n) : n \in 1..nextId}

\* Instants the clock has shown so far.
TickDays == UserTTLDays \div 2

Past == {t \in 0..now : t % TickDays = 0}

NoToken == [kind |-> "none"]

Malformed == [kind |-> "malformed"]

Forge(token) == [token EXCEPT !.sig = "forged"]

\* Tokens the server has signed: an admin token for every successful admin
\* login, a user token for every successful login, a demo token for every
\* demo login.
AdminTokens ==
    {GenerateAdminToken(p[1], p[2]) :
        p \in {q \in (DOMAIN admins) \X Past :
                 /\ admins[q[1]].lastLogin # Unset
                 /\ q[2] <= admins[q[1]].lastLogin[1]}}

UserTokens ==
    {GenerateUserToken(p[1], p[2]) :
        p \in {q \in (DOMAIN users) \X Past :
                 /\ users[q[1]].lastLogin # Unset
                 /\ q[2] <= users[q[1]].lastLogin[1]}}
    \cup {GenerateUserToken(DemoId, t) : t \in Past}

\* What a request can carry in its Authorization header.
Tokens ==
    {NoToken, Malformed, Forge(GenerateAdminToken(Aid(1), now))}
    \cup AdminTokens \cup UserTokens

Bodies == {Unset, <<100>>}

\* What a balance request can carry as its amount: nothing, a number or
\* a string that is no number.
Amount(n) == [type |-> "number", value |-> n]

Amounts == {[type |-> "absent"], [type |-> "string"], Amount(10), Amount(20)}

\* What a reject request can carry as its reason.
Reasons == {Unset, <<"spam">>}

Url1 == <<"https:", "//play.example">>

\* What process.env.WEBVIEW_URL can be: not set, or a URL.
EnvUrl == <<"https:", "//env.example">>

Envs == {Unset, EnvUrl}

BadUrl == <<"", "play.example">>

Urls == {Unset, Url1, BadUrl}

\* Signups that race: one phone twice, with and without an email, and
\* another phone with the same email in another casing.
RaceSignupRequests ==
    {[phone |-> Phone1, email |-> Unset, password |-> Password1, username |-> Unset],
     [phone |-> Phone1, email |-> EmailLower, password |-> Password1, username |-> Unset],
     [phone |-> DemoPhone, email |-> EmailUpper, password |-> Password1,
      username |-> Unset]}

\* Two signups can be in the handler at a time.
Slots == {"a", "b"}

Idle == [pc |-> "idle"]

\* The signup of a slot once its response is sent.
Done(req, resp) ==
    [pc |-> "done", req |-> req, code |-> resp.code, message |-> resp.message]

\* Spec lets the seeded super admin alone log in.
SuperAdminLoginRequests ==
    [username : {<<"admin">>, <<"ghost">>}, password : {AdminPassword, WrongPassword}]

ListQueries ==
    {[status |-> Unset, page |-> 1, limit |-> 50],
     [status |-> <<"pending">>, page |-> 1, limit |-> 50],
     [status |-> Unset, page |-> 2, limit |-> 1]}

---------------------------------------------------------------------------
(* The state machine *)

\* models/Admin documents; seedAdmin.js creates the first one.
NewAdmin(id, username, email, password, role, isActive) ==
    [ id        |-> id,
      username  |-> username,
      email     |-> email,
      password  |-> HashPassword(password),
      role      |-> role,
      isActive  |-> isActive,
      lastLogin |-> Unset ]

Init ==
    /\ users = <<>>
    /\ nextId = 1
    /\ admins = (Aid(1) :> NewAdmin(Aid(1), <<"admin">>, <<"admin@philucky.com">>,
                                    AdminPassword, "super_admin", TRUE))
             @@ (Aid(2) :> NewAdmin(Aid(2), <<"mod">>, <<"mod@philucky.com">>,
                                    AdminPassword, "admin", TRUE))
             @@ (Aid(3) :> NewAdmin(Aid(3), <<"old">>, <<"old@philucky.com">>,
                                    AdminPassword, "admin", FALSE))
    /\ settings = <<>>
    /\ now = 0
    /\ last = [op |-> "start", code |-> 0]
    /\ signups = [slot \in Slots |-> Idle]
    /\ inflight = Idle

Outcome(op, resp) ==
    [op |-> op, code |-> resp.code]

SignupOf(requests) ==
    \E req \in requests :
        LET r == Signup(users, nextId, req)
        IN  /\ r.nextId <= MaxUsers + 1
            /\ users' = r.users
            /\ nextId' = r.nextId
            /\ last' = Outcome("signup", r.resp)
            /\ UNCHANGED <<signups, inflight, admins, settings, now>>

PostSignup == SignupOf(SignupRequests)

ClockPostSignup == SignupOf(ClockSignupRequests)

AdminPostSignup == SignupOf(AdminSignupRequests)

\* The settings lookup of a login may fail; the login goes on with what
\* getWebViewUrl returns then.
LoginOf(requests, fates) ==
    \E req \in requests, down \in fates :
        LET url == WebViewUrlOf(Lookup(settings, "webViewUrl", down),
                                EnvWebViewUrl, Port)
            r   == LoginWith(users, url, now, req)
        IN  /\ users' = r.users
            /\ last' = Outcome("login", r.resp)
            /\ UNCHANGED <<signups, inflight, nextId, admins, settings, now>>

PostLogin == LoginOf(LoginRequests, {FALSE})

ClockPostLogin == LoginOf(ClockLoginRequests, BOOLEAN)

AdminPostLogin == LoginOf(ClockLoginRequests, {FALSE})

GetCheckStatus ==
    \E identifier \in {Phone1, DemoPhone, EmailLower, EmailUpper} :
        LET r == CheckStatus(users, identifier)
        IN  /\ users' = r.users
            /\ last' = Outcome("check-status", r.resp)
            /\ UNCHANGED <<signups, inflight, nextId, admins, settings, now>>

AdminLoginOf(requests) ==
    \E req \in requests :
        LET r == AdminLogin(admins, now, req)
        IN  /\ admins' = r.admins
            /\ last' = Outcome("admin-login", r.resp)
            /\ UNCHANGED <<signups, inflight, users, nextId, settings, now>>

PostAdminLogin == AdminLoginOf(SuperAdminLoginRequests)

ClockPostAdminLogin == AdminLoginOf(AdminLoginRequests)

GetUsers ==
    \E token \in Tokens, query \in ListQueries :
        LET r == ListUsers(users, admins, now, token, query)
        IN  /\ users' = r.users
            /\ last' = Outcome("users", r.resp)
            /\ UNCHANGED <<signups, inflight, nextId, admins, settings, now>>

GetStats ==
    \E token \in Tokens :
        LET r == Stats(users, admins, now, token)
        IN  /\ users' = r.users
            /\ last' = Outcome("stats", r.resp)
            /\ UNCHANGED <<signups, inflight, nextId, admins, settings, now>>

GetVerify ==
    \E token \in Tokens :
        LET r == Verify(users, admins, now, token)
        IN  /\ users' = r.users
            /\ last' = Outcome("verify", r.resp)
            /\ UNCHANGED <<signups, inflight, nextId, admins, settings, now>>

PutApprove ==
    \E token \in Tokens, userId \in UserIds, body \in Bodies :
        LET r == ApproveUser(users, admins, now, token, userId, body)
        IN  /\ users' = r.users
            /\ last' = Outcome("approve", r.resp)
            /\ UNCHANGED <<signups, inflight, nextId, admins, settings, now>>

PutReject ==
    \E token \in Tokens, userId \in UserIds, body \in Reasons :
        LET r == RejectUser(users, admins, now, token, userId, body)
        IN  /\ users' = r.users
            /\ last' = Outcome("reject", r.resp)
            /\ UNCHANGED <<signups, inflight, nextId, admins, settings, now>>

PutToggleActive ==
    \E token \in Tokens, userId \in UserIds :
        LET r == ToggleActive(users, admins, now, token, userId)
        IN  /\ users' = r.users
            /\ last' = Outcome("toggle-active", r.resp)
            /\ UNCHANGED <<signups, inflight, nextId, admins, settings, now>>

DeleteUsers ==
    \E token \in Tokens, userId \in UserIds :
        LET r == DeleteUser(users, admins, now, token, userId)
        IN  /\ users' = r.users
            /\ last' = Outcome("delete", r.resp)
            /\ UNCHANGED <<signups, inflight, nextId, admins, settings, now>>

PutBalance ==
    \E token \in Tokens, userId \in UserIds, amount \in {[type |-> "absent"], Amount(10)} :
        LET r == SetBalance(users, admins, now, token, userId, amount)
        IN  /\ users' = r.users
            /\ last' = Outcome("balance", r.resp)
            /\ UNCHANGED <<signups, inflight, nextId, admins, settings, now>>

GetAdminSettings ==
    \E token \in Tokens :
        LET r == GetSettings(settings, admins, now, token)
        IN  /\ settings' = r.settings
            /\ last' = Outcome("settings", r.resp)
            /\ UNCHANGED <<signups, inflight, users, nextId, admins, now>>

PutAdminWebViewUrl ==
    \E token \in Tokens, url \in Urls :
        LET r == PutWebViewUrl(settings, admins, now, token, url)
        IN  /\ settings' = r.settings
            /\ last' = Outcome("webview-url", r.resp)
            /\ UNCHANGED <<signups, inflight, users, nextId, admins, now>>

\* Time passes.
Tick ==
    /\ now + TickDays <= MaxNow
    /\ now' = now + TickDays
    /\ UNCHANGED <<signups, inflight, users, nextId, admins, settings, last>>

\* An admin is deactivated in the admins collection; no route does it.
DeactivateAdmin ==
    \E a \in DOMAIN admins :
        /\ admins[a].isActive
        /\ admins' = [admins EXCEPT ![a].isActive = FALSE]
        /\ UNCHANGED <<signups, inflight, users, nextId, settings, now, last>>

\* Time passes, long enough for a user token to expire.
LateTick ==
    /\ now + TickDays <= MaxLate
    /\ now' = now + TickDays
    /\ UNCHANGED <<signups, inflight, users, nextId, admins, settings, last>>

Next ==
    \/ PostSignup
    \/ PostLogin
    \/ GetCheckStatus
    \/ PostAdminLogin
    \/ GetUsers
    \/ GetStats
    \/ GetVerify
    \/ PutApprove
    \/ PutReject
    \/ PutToggleActive
    \/ DeleteUsers

Spec == Init /\ [][Next]_vars

\* The admin's work on accounts: two phones sign up, log in and are
\* approved, rejected, suspended, deleted and sent balance requests.
AdminNext ==
    \/ AdminPostSignup
    \/ AdminPostLogin
    \/ PostAdminLogin
    \/ PutApprove
    \/ PutReject
    \/ PutToggleActive
    \/ DeleteUsers
    \/ PutBalance

AdminSpec == Init /\ [][AdminNext]_vars

\* The same handlers with the clock running and fewer distinct signups.
ClockNext ==
    \/ ClockPostSignup
    \/ ClockPostLogin
    \/ GetCheckStatus
    \/ ClockPostAdminLogin
    \/ GetUsers
    \/ GetStats
    \/ GetVerify
    \/ PutApprove
    \/ PutReject
    \/ PutToggleActive
    \/ DeleteUsers
    \/ GetAdminSettings
    \/ PutAdminWebViewUrl
    \/ Tick

ClockSpec == Init /\ [][ClockNext]_vars

\* Sessions over time: one phone signs up and logs in, the admins log in,
\* the account is approved, rejected, suspended and deleted, the webViewUrl
\* is set, the clock runs and the settings lookup of a login may fail.
SessionNext ==
    \/ ClockPostSignup
    \/ ClockPostLogin
    \/ ClockPostAdminLogin
    \/ PutApprove
    \/ PutReject
    \/ PutToggleActive
    \/ DeleteUsers
    \/ PutAdminWebViewUrl
    \/ Tick

SessionSpec == Init /\ [][SessionNext]_vars

\* Tokens over their lifetimes: one phone signs up, is approved and logs
\* in, the admins log in and are deactivated, tokens are presented to the
\* admin routes and the clock runs past the expiry of admin tokens and of
\* user tokens.
TokenNext ==
    \/ ClockPostSignup
    \/ AdminPostLogin
    \/ ClockPostAdminLogin
    \/ PutApprove
    \/ GetVerify
    \/ DeactivateAdmin
    \/ LateTick

TokenSpec == Init /\ [][TokenNext]_vars

\* Requests handled while the store fails.
PostSignupFailing ==
    \E req \in AdminSignupRequests :
        LET r == SignupFailing(users, nextId, req, StoreUnreachable)
        IN  /\ users' = r.users
            /\ nextId' = r.nextId
            /\ last' = Outcome("signup", r.resp)
            /\ UNCHANGED <<signups, inflight, admins, settings, now>>

PostLoginFailing ==
    \E req \in ClockLoginRequests :
        LET r == LoginFailing(users, settings, now, req, StoreUnreachable)
        IN  /\ users' = r.users
            /\ last' = Outcome("login", r.resp)
            /\ UNCHANGED <<signups, inflight, nextId, admins, settings, now>>

GetCheckStatusFailing ==
    \E identifier \in {Phone1} :
        LET r == CheckStatusFailing(users, identifier, StoreUnreachable)
        IN  /\ users' = r.users
            /\ last' = Outcome("check-status", r.resp)
            /\ UNCHANGED <<signups, inflight, nextId, admins, settings, now>>

PostAdminLoginFailing ==
    \E req \in SuperAdminLoginRequests :
        LET r == AdminLoginFailing(admins, now, req, StoreUnreachable)
        IN  /\ admins' = r.admins
            /\ last' = Outcome("admin-login", r.resp)
            /\ UNCHANGED <<signups, inflight, users, nextId, settings, now>>

PutApproveFailing ==
    \E token \in Tokens, userId \in UserIds, at \in {"middleware", "handler"} :
        LET r == ApproveUserFailing(users, admins, now, token, userId, at,
                                    StoreUnreachable)
        IN  /\ users' = r.users
            /\ last' = Outcome("approve", r.resp)
            /\ UNCHANGED <<signups, inflight, nextId, admins, settings, now>>

\* The store comes and goes: two phones sign up and log in, the super
\* admin logs in and approves, and any of these requests may meet a store
\* operation that throws.
OutageNext ==
    \/ AdminPostSignup
    \/ AdminPostLogin
    \/ PostAdminLogin
    \/ PutApprove
    \/ PostSignupFailing
    \/ PostLoginFailing
    \/ GetCheckStatusFailing
    \/ PostAdminLoginFailing
    \/ PutApproveFailing

OutageSpec == Init /\ [][OutageNext]_vars

\* POST /signup step by step, each step running up to the next await.
\* The request arrives and passes validation.
SignupArrives(slot) ==
    \E req \in RaceSignupRequests :
        /\ signups[slot].pc = "idle"
        /\ SignupErrors(req) = <<>>
        /\ signups' = [signups EXCEPT ![slot] = [pc |-> "phone", req |-> req]]
        /\ UNCHANGED <<inflight, users, nextId, admins, settings, now, last>>

\* await User.findOne({ phone })
SignupChecksPhone(slot) ==
    LET req  == signups[slot].req
        resp == [code |-> 400, success |-> FALSE,
                 message |-> "Phone number already registered"]
    IN  /\ signups[slot].pc = "phone"
        /\ IF ExistingPhone(users, req.phone) # Unset
           THEN /\ signups' = [signups EXCEPT ![slot] = Done(req, resp)]
                /\ last' = Outcome("signup", resp)
           ELSE /\ signups' = [signups EXCEPT ![slot].pc = "email"]
                /\ last' = last
        /\ UNCHANGED <<inflight, users, nextId, admins, settings, now>>

\* if (email) await User.findOne({ email: email.toLowerCase() })
SignupChecksEmail(slot) ==
    LET req  == signups[slot].req
        resp == [code |-> 400, success |-> FALSE,
                 message |-> "Email already registered"]
    IN  /\ signups[slot].pc = "email"
        /\ IF req.email # Unset /\ ExistingEmail(users, req.email) # Unset
           THEN /\ signups' = [signups EXCEPT ![slot] = Done(req, resp)]
                /\ last' = Outcome("signup", resp)
           ELSE /\ signups' = [signups EXCEPT ![slot].pc = "create"]
                /\ last' = last
        /\ UNCHANGED <<inflight, users, nextId, admins, settings, now>>

\* await User.create(fields), then the 201 response, or the catch block.
SignupCreates(slot) ==
    LET req     == signups[slot].req
        created == CreateUser(users, nextId, SignupFields(req))
        resp    == IF created.ok
                   THEN [code |-> 201, success |-> TRUE,
                         message |-> "Registration successful! Your account is pending approval."]
                   ELSE SignupCatch(created.error)
    IN  /\ signups[slot].pc = "create"
        /\ nextId <= MaxUsers
        /\ users' = IF created.ok THEN created.users ELSE users
        /\ nextId' = IF created.ok THEN nextId + 1 ELSE nextId
        /\ signups' = [signups EXCEPT ![slot] = Done(req, resp)]
        /\ last' = Outcome("signup", resp)
        /\ UNCHANGED <<inflight, admins, settings, now>>

\* The connections of the answered signups are closed.
SignupsClose ==
    /\ \A slot \in Slots : signups[slot].pc \in {"idle", "done"}
    /\ \E slot \in Slots : signups[slot].pc = "done"
    /\ signups' = [slot \in Slots |-> Idle]
    /\ UNCHANGED <<inflight, users, nextId, admins, settings, now, last>>

\* Signups racing each other.
RaceNext ==
    \/ \E slot \in Slots : SignupArrives(slot)
    \/ \E slot \in Slots : SignupChecksPhone(slot)
    \/ \E slot \in Slots : SignupChecksEmail(slot)
    \/ \E slot \in Slots : SignupCreates(slot)
    \/ SignupsClose

RaceSpec == Init /\ [][RaceNext]_vars

---------------------------------------------------------------------------
(* Account handlers step by step: each step runs up to the next await *)

\* The error of save() when no stored document has the id.
DocumentNotFound ==
    [name |-> "DocumentNotFoundError", code |-> 0,
     message |-> "No document found for query"]

\* await user.save() of a document loaded as `read` and assigned to as
\* `doc` in memory: an update of the stored document with the id that sets
\* the paths whose value the handler changed. It inserts nothing, and
\* throws when no stored document has the id.
UserSave(us, read, doc) ==
    IF doc.id \notin DOMAIN us
    THEN [ok |-> FALSE, error |-> DocumentNotFound, users |-> us]
    ELSE [ok |-> TRUE,
          users |-> [us EXCEPT ![doc.id] =
                        [f \in DOMAIN read |->
                            IF doc[f] # read[f] THEN doc[f] ELSE us[doc.id][f]]]]

MutationKinds == {"approve", "reject", "toggle-active"}

\* The assignment each admin handler makes to the document it loaded.
Mutated(kind, user) ==
    CASE kind = "approve"       -> Approved(user, Unset)
      [] kind = "reject"        -> Rejected(user, Unset)
      [] kind = "toggle-active" -> Toggled(user)

\* The message of each handler's catch block.
CatchMessage(kind) ==
    CASE kind = "approve"       -> "Error approving user"
      [] kind = "reject"        -> "Error rejecting user"
      [] kind = "toggle-active" -> "Error toggling user status"
      [] kind = "login"         -> "Server error during login"

\* A catch block that writes the loaded document back when the save fails.
AfterSaveRestores(r, saved) ==
    IF saved.ok
    THEN [users |-> saved.users, resp |-> [code |-> 200, success |-> TRUE]]
    ELSE [users |-> saved.users @@ (r.doc.id :> r.doc),
          resp |-> AdminCatch(CatchMessage(r.kind))]

\* The handler once await user.save() has returned or thrown: the 200
\* response, or the catch block's 500, which writes nothing.
AfterSave(r, saved) ==
    IF saved.ok
    THEN [users |-> saved.users, resp |-> [code |-> 200, success |-> TRUE]]
    ELSE [users |-> saved.users,
          resp |-> IF r.kind = "login"
                   THEN AuthCatch(CatchMessage(r.kind), saved.error)
                   ELSE AdminCatch(CatchMessage(r.kind))]

\* approve, reject and toggle-active up to await user.save(): the token
\* check, await User.findById(userId), the 404, the assignment in memory.
MutationReads ==
    \E kind \in MutationKinds, token \in Tokens, userId \in UserIds :
        LET auth  == VerifyAdminToken(admins, now, token)
            found == FindById(users, userId)
        IN  /\ inflight.pc = "idle"
            /\ IF ~auth.next
               THEN inflight' = inflight /\ last' = Outcome(kind, auth.resp)
               ELSE IF found = Unset
               THEN inflight' = inflight /\ last' = Outcome(kind, NotFound)
               ELSE /\ inflight' = [pc |-> "save", kind |-> kind, read |-> found[1],
                                    doc |-> Mutated(kind, found[1])]
                    /\ last' = last
            /\ UNCHANGED <<signups, users, nextId, admins, settings, now>>

\* POST /login up to await user.save(): every refusal and the demo answer
\* return before it; a login that passes them sets lastLogin in memory.
LoginReads ==
    \E req \in ClockLoginRequests :
        LET r     == Login(users, settings, now, req)
            found == FindByIdentifier(users, req.identifier)
        IN  /\ inflight.pc = "idle"
            /\ IF r.resp.code # 200 \/ IsDemoLogin(req)
               THEN inflight' = inflight /\ last' = Outcome("login", r.resp)
               ELSE /\ inflight' = [pc |-> "save", kind |-> "login", read |-> found[1],
                                    doc |-> RecordLogin(found[1], now)]
                    /\ last' = last
            /\ UNCHANGED <<signups, users, nextId, admins, settings, now>>

\* await user.save() and the rest of the handler.
HandlerSaves ==
    LET out == AfterSave(inflight, UserSave(users, inflight.read, inflight.doc))
    IN  /\ inflight.pc = "save"
        /\ users' = out.users
        /\ inflight' = Idle
        /\ last' = Outcome(inflight.kind, out.resp)
        /\ UNCHANGED <<signups, nextId, admins, settings, now>>

\* One handler between its read and its save while whole requests are
\* handled: signups, admin logins, deletes and the admin's mutations.
InterleaveNext ==
    \/ ClockPostSignup
    \/ PostAdminLogin
    \/ DeleteUsers
    \/ PutReject
    \/ PutToggleActive
    \/ MutationReads
    \/ LoginReads
    \/ HandlerSaves

InterleaveSpec == Init /\ [][InterleaveNext]_vars

---------------------------------------------------------------------------
(* GET /api/admin/stats step by step: one step for each awaited count *)

\* The counts of the response in the order the handler awaits them. The
\* sixth, recentUsers, reads createdAt, which the model does not keep.
StatsQueries ==
    <<"totalUsers", "pendingUsers", "approvedUsers", "rejectedUsers", "activeUsers">>

\* A count of active accounts that does not ask for approval.
MatchesActiveAny(name, u) ==
    CASE name = "totalUsers"    -> TRUE
      [] name = "pendingUsers"  -> u.status = "pending"
      [] name = "approvedUsers" -> u.status = "approved"
      [] name = "rejectedUsers" -> u.status = "rejected"
      [] name = "activeUsers"   -> u.isActive

\* The filter of each count.
Matches(name, u) ==
    CASE name = "totalUsers"    -> TRUE
      [] name = "pendingUsers"  -> u.status = "pending"
      [] name = "approvedUsers" -> u.status = "approved"
      [] name = "rejectedUsers" -> u.status = "rejected"
      [] name = "activeUsers"   -> u.isActive /\ u.status = "approved"

\* await User.countDocuments(filter)
CountDocuments(us, name) == Cardinality({i \in DOMAIN us : Matches(name, us[i])})

\* data of the response, from the counts in the order they were awaited.
StatsData(counts) ==
    [name \in {StatsQueries[k] : k \in DOMAIN counts} |->
        counts[CHOOSE k \in DOMAIN counts : StatsQueries[k] = name]]

\* The token check; the handler is then about to await its first count.
StatsStarts ==
    \E token \in Tokens :
        LET auth == VerifyAdminToken(admins, now, token)
        IN  /\ inflight.pc = "idle"
            /\ IF ~auth.next
               THEN inflight' = inflight /\ last' = Outcome("stats", auth.resp)
               ELSE /\ inflight' = [pc |-> "count", kind |-> "stats", counts |-> <<>>]
                    /\ last' = last
            /\ UNCHANGED <<signups, users, nextId, admins, settings, now>>

\* The next await User.countDocuments(...); after the last one, res.json.
StatsCounts ==
    LET k      == Len(inflight.counts) + 1
        counts == Append(inflight.counts, CountDocuments(users, StatsQueries[k]))
    IN  /\ inflight.pc = "count"
        /\ IF k < Len(StatsQueries)
           THEN /\ inflight' = [inflight EXCEPT !.counts = counts]
                /\ last' = last
           ELSE /\ inflight' = [pc |-> "answered", kind |-> "stats",
                                data |-> StatsData(counts)]
                /\ last' = [op |-> "stats", code |-> 200]
        /\ UNCHANGED <<signups, users, nextId, admins, settings, now>>

\* The handler returns.
StatsReturns ==
    /\ inflight.pc = "answered"
    /\ inflight' = Idle
    /\ UNCHANGED <<signups, users, nextId, admins, settings, now, last>>

\* The stats handler between its counts while accounts are created,
\* approved, rejected and deleted.
StatsNext ==
    \/ ClockPostSignup
    \/ PostAdminLogin
    \/ PutApprove
    \/ PutReject
    \/ DeleteUsers
    \/ StatsStarts
    \/ StatsCounts
    \/ StatsReturns

StatsSpec == Init /\ [][StatsNext]_vars

---------------------------------------------------------------------------
(* The settings handlers step by step: the find, then the write *)

\* GET /api/admin/settings up to await Settings.create: the token check,
\* await Settings.find(), and the answer when the setting is there.
GetSettingsFinds ==
    \E token \in Tokens :
        LET auth == VerifyAdminToken(admins, now, token)
            r    == GetSettings(settings, admins, now, token)
        IN  /\ inflight.pc = "idle"
            /\ IF ~auth.next \/ "webViewUrl" \in DOMAIN SettingsObj(settings)
               THEN inflight' = inflight /\ last' = Outcome("settings", r.resp)
               ELSE /\ inflight' = [pc |-> "create-setting", kind |-> "settings",
                                    value |-> IF EnvWebViewUrl # Unset THEN EnvWebViewUrl
                                              ELSE AppGuideUrl(Port),
                                    admin |-> auth.admin.id]
                    /\ last' = last
            /\ UNCHANGED <<signups, users, nextId, admins, settings, now>>

\* PUT /api/admin/settings/webview-url up to the write: the token check,
\* the two validations, await Settings.findOne({ key }), and the
\* assignment in memory when the setting is found.
PutUrlFinds ==
    \E token \in Tokens, url \in Urls :
        LET auth  == VerifyAdminToken(admins, now, token)
            r     == PutWebViewUrl(settings, admins, now, token, url)
            found == FindSetting(settings, "webViewUrl")
        IN  /\ inflight.pc = "idle"
            /\ IF ~auth.next \/ url = Unset \/ ~IsUrl(url)
               THEN inflight' = inflight /\ last' = Outcome("webview-url", r.resp)
               ELSE /\ inflight' =
                          IF found # Unset
                          THEN [pc |-> "save-setting", kind |-> "webview-url",
                                doc |-> [found[1] EXCEPT !.value = url,
                                                         !.updatedBy = auth.admin.id]]
                          ELSE [pc |-> "create-setting", kind |-> "webview-url",
                                value |-> url, admin |-> auth.admin.id]
                    /\ last' = last
            /\ UNCHANGED <<signups, users, nextId, admins, settings, now>>

\* await Settings.create(...) of either handler, then its response, or its
\* catch block when the create throws.
SettingCreates ==
    LET made == CreateSetting(settings, now, "webViewUrl", inflight.value,
                              WebViewDescription, inflight.admin)
        resp == IF made.ok THEN [code |-> 200, success |-> TRUE]
                ELSE AdminCatch(IF inflight.kind = "settings"
                                THEN "Error fetching settings"
                                ELSE "Error updating WebView URL")
    IN  /\ inflight.pc = "create-setting"
        /\ settings' = made.settings
        /\ inflight' = Idle
        /\ last' = Outcome(inflight.kind, resp)
        /\ UNCHANGED <<signups, users, nextId, admins, now>>

\* await setting.save() of the update handler, then its response.
SettingSaves ==
    /\ inflight.pc = "save-setting"
    /\ settings' = SaveSetting(settings, now, inflight.doc)
    /\ inflight' = Idle
    /\ last' = [op |-> inflight.kind, code |-> 200]
    /\ UNCHANGED <<signups, users, nextId, admins, now>>

\* One settings handler between its find and its write while whole
\* requests are handled: the settings routes, a signup, its approval.
SettingsNext ==
    \/ ClockPostSignup
    \/ PostAdminLogin
    \/ PutApprove
    \/ GetAdminSettings
    \/ PutAdminWebViewUrl
    \/ GetSettingsFinds
    \/ PutUrlFinds
    \/ SettingCreates
    \/ SettingSaves

SettingsSpec == Init /\ [][SettingsNext]_vars

---------------------------------------------------------------------------
(* Vocabulary of the properties *)

IsInvalidCredentials(resp) ==
    resp = [code |-> 401, success |-> FALSE, message |-> "Invalid credentials"]

IsPendingApproval(resp) ==
    /\ resp.code = 403
    /\ resp.message = "Your account is pending approval. Please wait for admin approval."

IsRejected(resp) ==
    /\ resp.code = 403
    /\ resp.message = "Your account has been rejected. Please contact support."

IsDeactivated(resp) ==
    /\ resp.code = 403
    /\ resp.message = "Your account has been deactivated. Please contact support."

IssuesToken(resp) == "data" \in DOMAIN resp /\ "token" \in DOMAIN resp.data

\* The identifier names the account: its phone, or its email in any casing.
Names(identifier, user) ==
    \/ identifier = user.phone
    \/ user.email # Unset /\ ToLowerCase(identifier) = ToLowerCase(user.email)

\* Well-formed logins outside the demo branch that name the account.
LoginsOf(user) ==
    {req \in LoginRequests :
        /\ req.identifier # Unset /\ req.password # Unset
        /\ ~IsDemoLogin(req)
        /\ Names(req.identifier, user)}

CorrectLoginsOf(user) ==
    {req \in LoginsOf(user) : user.password = HashPassword(req.password)}

WrongLoginsOf(user) ==
    {req \in LoginsOf(user) : user.password # HashPassword(req.password)}

MayLogin(user) == user.status = "approved" /\ user.isActive

---------------------------------------------------------------------------
(* C1: a login with an account's correct identifier and password, outside
   the demo branch, succeeds and issues a token exactly when the account is
   approved and active; otherwise no token is issued and the response is
   PendingApproval for a pending account, Rejected for a rejected one and
   Deactivated for an approved, inactive one. *)
C1_LoginIffApprovedAndActive ==
    \A id \in DOMAIN users :
        \A req \in CorrectLoginsOf(users[id]) :
            LET user == users[id]
                resp == Login(users, settings, now, req).resp
            IN  /\ (resp.code = 200 /\ IssuesToken(resp)) <=> MayLogin(user)
                /\ ~MayLogin(user) => ~IssuesToken(resp)
                /\ user.status = "pending" => IsPendingApproval(resp)
                /\ user.status = "rejected" => IsRejected(resp)
                /\ (user.status = "approved" /\ ~user.isActive) => IsDeactivated(resp)

\* A login has just succeeded on an approved, active account while another
\* account with known credentials is approved and inactive.
C1_Witness ==
    /\ last = [op |-> "login", code |-> 200]
    /\ \E id \in DOMAIN users :
          MayLogin(users[id]) /\ users[id].lastLogin = <<now>>
    /\ \E id \in DOMAIN users :
          /\ users[id].status = "approved" /\ ~users[id].isActive
          /\ CorrectLoginsOf(users[id]) # {}

(* C2: the gating order is pending, rejected, isActive, after the password
   was verified: pending and inactive gives PendingApproval, rejected and
   inactive gives Rejected, Deactivated is returned only for an approved,
   inactive account, and a wrong password on any account gives
   InvalidCredentials, never a gating error. *)
C2_GatingOrder ==
    \A id \in DOMAIN users :
        LET user == users[id]
        IN  /\ \A req \in CorrectLoginsOf(user) :
                  LET resp == Login(users, settings, now, req).resp
                  IN  /\ (user.status = "pending" /\ ~user.isActive)
                            => IsPendingApproval(resp)
                      /\ (user.status = "rejected" /\ ~user.isActive)
                            => IsRejected(resp)
                      /\ IsDeactivated(resp)
                            => (user.status = "approved" /\ ~user.isActive)
            /\ \A req \in WrongLoginsOf(user) :
                  IsInvalidCredentials(Login(users, settings, now, req).resp)

\* A login was just refused while the store holds a pending, inactive
\* account and a rejected, inactive one, both with known credentials.
C2_Witness ==
    /\ last = [op |-> "login", code |-> 403]
    /\ \E id \in DOMAIN users :
          /\ users[id].status = "pending" /\ ~users[id].isActive
          /\ CorrectLoginsOf(users[id]) # {} /\ WrongLoginsOf(users[id]) # {}
    /\ \E id \in DOMAIN users :
          users[id].status = "rejected" /\ ~users[id].isActive

IsDuplicateIdentity(resp) ==
    /\ resp.code = 400
    /\ resp.message \in {"Phone number already registered", "Email already registered"}

\* Signups that pass validation: a phone, a password of six characters or
\* more, and a well-formed email if one is given.
ValidSignups ==
    {req \in SignupRequests :
        /\ req.phone # Unset
        /\ Len(req.password) >= MinPasswordLen
        /\ req.email # Unset => IsEmail(req.email)}

PhoneRegistered(phone) == \E id \in DOMAIN users : users[id].phone = phone

EmailRegistered(email) ==
    \E id \in DOMAIN users :
        /\ users[id].email # Unset
        /\ ToLowerCase(users[id].email) = ToLowerCase(email)

(* C3: a valid signup whose phone, and email if given, is not yet
   registered succeeds and creates exactly one account, pending and active;
   a signup with a registered phone fails with DuplicateIdentity (400) and
   leaves every account as it was. *)
C3_SignupCreatesPendingOrRefusesDuplicate ==
    \A req \in ValidSignups :
        LET r == Signup(users, nextId, req)
        IN  /\ (~PhoneRegistered(req.phone)
                  /\ (req.email # Unset => ~EmailRegistered(req.email)))
                => /\ r.resp.code = 201
                   /\ \E new \in DOMAIN r.users \ DOMAIN users :
                         /\ DOMAIN r.users = DOMAIN users \cup {new}
                         /\ r.users[new].phone = req.phone
                         /\ r.users[new].status = "pending"
                         /\ r.users[new].isActive
                   /\ \A id \in DOMAIN users : r.users[id] = users[id]
            /\ PhoneRegistered(req.phone)
                => /\ IsDuplicateIdentity(r.resp)
                   /\ r.users = users

\* Two signups with distinct phones have succeeded, and a further signup
\* was just answered 400.
C3_Witness ==
    /\ last = [op |-> "signup", code |-> 400]
    /\ PhoneRegistered(Phone1) /\ PhoneRegistered(DemoPhone)
    /\ \A id \in DOMAIN users : users[id].status = "pending" /\ users[id].isActive

(* C4: in every reachable state no two accounts share a phone and no two
   accounts that have an email share its lowercase form; a signup whose
   email differs from a registered one only in letter case is refused. *)
C4_PhoneAndEmailUnique ==
    /\ \A i, j \in DOMAIN users :
          i # j =>
            /\ users[i].phone # users[j].phone
            /\ (users[i].email # Unset /\ users[j].email # Unset)
                  => ToLowerCase(users[i].email) # ToLowerCase(users[j].email)
    /\ \A req \in ValidSignups :
          (req.email # Unset /\ EmailRegistered(req.email))
            => LET r == Signup(users, nextId, req)
               IN  r.resp.code = 400 /\ r.users = users

\* Two accounts, one holding an email that requests spell in another
\* casing and one holding none, after a signup that was refused.
C4_Witness ==
    /\ last = [op |-> "signup", code |-> 400]
    /\ Cardinality(DOMAIN users) = 2
    /\ \E id \in DOMAIN users : users[id].email = EmailLower
    /\ \E id \in DOMAIN users : users[id].email = Unset
    /\ \E req \in ValidSignups : req.email = EmailUpper

UnknownIdentifier(identifier) ==
    \A id \in DOMAIN users : ~Names(identifier, users[id])

(* C5: outside the demo branch, a login with an identifier that matches no
   account and a login with an existing identifier and a wrong password get
   the same response, whatever the state of the existing account. *)
C5_UniformInvalidCredentials ==
    \A req1 \in {req \in LoginRequests :
                    /\ req.identifier # Unset /\ req.password # Unset
                    /\ ~IsDemoLogin(req)
                    /\ UnknownIdentifier(req.identifier)} :
        \A id \in DOMAIN users :
            \A req2 \in WrongLoginsOf(users[id]) :
                Login(users, settings, now, req1).resp
                    = Login(users, settings, now, req2).resp

\* A login was just answered 401 while one phone is registered to an
\* approved, active account and the other phone to none.
C5_Witness ==
    /\ last = [op |-> "login", code |-> 401]
    /\ UnknownIdentifier(Phone1)
    /\ \E id \in DOMAIN users :
          MayLogin(users[id]) /\ WrongLoginsOf(users[id]) # {}

(* C6: the demo identifier with the demo password always logs in, decided
   before any store lookup, with a synthetic summary flagged as demo and no
   write to the store, and the demo identity is never a persisted account. *)
C6_DemoNeverPersisted ==
    /\ \A req \in LoginRequests :
          IsDemoLogin(req) =>
            LET r == Login(users, settings, now, req)
            IN  /\ r.resp.code = 200
                /\ r.resp.isDemo
                /\ r.resp.data.user.id = DemoId
                /\ r.resp = Login(<<>>, <<>>, now, req).resp
                /\ r.users = users
    /\ \A id \in DOMAIN users :
          users[id].phone # DemoPhone /\ users[id].email # DemoEmail

\* The token verifies: well formed, signed with the secret, not expired.
ValidToken(token) ==
    token.kind = "jwt" /\ token.sig = JwtSecret /\ now < token.exp

Privileged(token) ==
    "isAdmin" \in DOMAIN token.payload /\ token.payload.isAdmin

\* The token is a privileged one of an admin who exists and is active.
AdminSession(token) ==
    /\ ValidToken(token)
    /\ Privileged(token)
    /\ token.payload.id \in DOMAIN admins
    /\ admins[token.payload.id].isActive

RoleOf(token) == admins[token.payload.id].role

(* C7: approve on an existing account leaves it approved and active,
   whatever it was before, and sets the balance to the initial balance
   supplied, leaving the balance alone when none is supplied. *)
C7_ApproveActivatesAndSetsBalance ==
    \A token \in Tokens, id \in DOMAIN users, body \in Bodies :
        LET r == ApproveUser(users, admins, now, token, id, body)
        IN  r.resp.code = 200 =>
              /\ r.users[id].status = "approved"
              /\ r.users[id].isActive
              /\ r.users[id].balance
                    = IF body # Unset THEN body[1] ELSE users[id].balance

(* C8: no status transition is blocked by the current state: approve and
   reject each succeed on an account of any status, doing either twice is
   doing it once, and approve, reject, approve ends approved with no
   error on the way. *)
C8_TransitionsNeverBlocked ==
    \A token \in Tokens, id \in DOMAIN users, body \in Bodies :
        AdminSession(token) =>
            LET approve(us) == ApproveUser(us, admins, now, token, id, body)
                reject(us)  == RejectUser(us, admins, now, token, id, body)
                a   == approve(users)
                r   == reject(users)
                aa  == approve(a.users)
                rr  == reject(r.users)
                ar  == reject(a.users)
                ara == approve(ar.users)
            IN  /\ a.resp.code = 200 /\ a.users[id].status = "approved"
                /\ r.resp.code = 200 /\ r.users[id].status = "rejected"
                /\ aa.resp.code = 200 /\ aa.users = a.users
                /\ rr.resp.code = 200 /\ rr.users = r.users
                /\ ar.resp.code = 200 /\ ar.users[id].status = "rejected"
                /\ ara.resp.code = 200 /\ ara.users[id].status = "approved"

\* An approve has just succeeded; the store holds an approved account and a
\* rejected one, and an admin session is at hand.
C8_Witness ==
    /\ last = [op |-> "approve", code |-> 200]
    /\ \E id \in DOMAIN users : users[id].status = "approved"
    /\ \E id \in DOMAIN users : users[id].status = "rejected"
    /\ \E token \in Tokens : AdminSession(token)

(* C9: delete removes an account only for a super_admin; with an admin-role
   session it answers Forbidden (403) and leaves the store as it was,
   whether or not the id names an account, the role being checked before
   the lookup. *)
C9_DeleteNeedsSuperAdmin ==
    \A token \in Tokens, id \in UserIds :
        LET r == DeleteUser(users, admins, now, token, id)
        IN  /\ r.users # users
                => AdminSession(token) /\ RoleOf(token) = "super_admin"
            /\ (AdminSession(token) /\ RoleOf(token) = "admin")
                => r.resp.code = 403 /\ r.users = users

\* A delete was just answered 403 while an admin-role session is at hand,
\* an account exists and another id names none.
C9_Witness ==
    /\ last = [op |-> "delete", code |-> 403]
    /\ \E token \in Tokens : AdminSession(token) /\ RoleOf(token) = "admin"
    /\ DOMAIN users # {}
    /\ UserIds \ DOMAIN users # {}

\* What each operation behind the token middleware would do with the
\* token, over every other input, on the admins collection adms: the
\* stores after it and its response.
OutcomesUnder(adms, token) ==
    LET onUsers(r)    == [users |-> r.users, settings |-> settings, resp |-> r.resp]
        onSettings(r) == [users |-> users, settings |-> r.settings, resp |-> r.resp]
    IN  {onUsers(ListUsers(users, adms, now, token, q)) : q \in ListQueries}
        \cup {onUsers(Stats(users, adms, now, token)),
              onUsers(Verify(users, adms, now, token)),
              onSettings(GetSettings(settings, adms, now, token))}
        \cup {onUsers(ApproveUser(users, adms, now, token, p[1], p[2])) :
                p \in UserIds \X Bodies}
        \cup {onUsers(RejectUser(users, adms, now, token, p[1], p[2])) :
                p \in UserIds \X Bodies}
        \cup {onUsers(ToggleActive(users, adms, now, token, id)) : id \in UserIds}
        \cup {onUsers(DeleteUser(users, adms, now, token, id)) : id \in UserIds}
        \cup {onSettings(PutWebViewUrl(settings, adms, now, token, url)) :
                url \in Urls}

GuardedOutcomes(token) == OutcomesUnder(admins, token)

Untouched(o) ==
    o.users = users /\ o.settings = settings /\ "data" \notin DOMAIN o.resp

(* C10: every admin operation other than admin login runs only behind a
   verified privileged token: a missing, malformed, wrongly signed or
   expired token gets Unauthorized (401), a validly signed token without
   the privilege flag gets Forbidden (403), and in both cases nothing is
   read into the response and nothing is modified. *)
C10_AdminOperationsNeedPrivilegedToken ==
    \A token \in Tokens :
        \A o \in GuardedOutcomes(token) :
            /\ ~ValidToken(token) => o.resp.code = 401 /\ Untouched(o)
            /\ (ValidToken(token) /\ ~Privileged(token))
                  => o.resp.code = 403 /\ Untouched(o)
            /\ ~Untouched(o) => ValidToken(token) /\ Privileged(token)

\* An approve was just answered 401 while an account exists and the
\* requests at hand include an expired admin token, a forged one and a
\* valid user token.
C10_Witness ==
    /\ last = [op |-> "approve", code |-> 401]
    /\ DOMAIN users # {}
    /\ \E token \in Tokens :
          token.kind = "jwt" /\ token.sig = JwtSecret
          /\ now >= token.exp /\ Privileged(token)
    /\ \E token \in Tokens : token.kind = "jwt" /\ token.sig # JwtSecret
    /\ \E token \in Tokens :
          ValidToken(token) /\ ~Privileged(token) /\ token.payload.id \in DOMAIN users

\* The store with one field of one account replaced.
WithField(us, id, field, value) ==
    [us EXCEPT ![id] = [f \in DOMAIN us[id] |-> IF f = field THEN value ELSE us[id][f]]]

(* C11: toggle-active on an existing account negates isActive and leaves
   its status, balance, identity fields and password, and every other
   account, as they were; deactivating and reactivating gives back the
   account unchanged, an approved one still approved. *)
C11_ToggleFlipsActiveOnly ==
    \A token \in Tokens, id \in DOMAIN users :
        AdminSession(token) =>
            LET once  == ToggleActive(users, admins, now, token, id)
                twice == ToggleActive(once.users, admins, now, token, id)
            IN  /\ once.resp.code = 200
                /\ once.users = WithField(users, id, "isActive", ~users[id].isActive)
                /\ once.users[id].status = users[id].status
                /\ twice.resp.code = 200
                /\ twice.users = users

\* A toggle has just succeeded and left an approved account, which has
\* logged in before, deactivated.
C11_Witness ==
    /\ last = [op |-> "toggle-active", code |-> 200]
    /\ \E id \in DOMAIN users :
          /\ users[id].status = "approved"
          /\ ~users[id].isActive
          /\ users[id].lastLogin # Unset
    /\ \E token \in Tokens : AdminSession(token)

(* C12: reject on an existing account sets its status to rejected and
   leaves isActive, balance, the identity fields and every other account
   as they were; the outcome is the same with and without a reason, and
   after it no login of the account is given a token. *)
C12_RejectSetsStatusOnly ==
    \A token \in Tokens, id \in DOMAIN users, reason \in Reasons :
        AdminSession(token) =>
            LET r == RejectUser(users, admins, now, token, id, reason)
            IN  /\ r.resp.code = 200
                /\ r.users = WithField(users, id, "status", "rejected")
                /\ r = RejectUser(users, admins, now, token, id, Unset)
                /\ \A req \in LoginsOf(users[id]) :
                      LET l == Login(r.users, settings, now, req)
                      IN  ~IssuesToken(l.resp) /\ l.users = r.users

\* A reject has just succeeded on an account that had logged in, while it
\* is still active and its credentials are known.
C12_Witness ==
    /\ last = [op |-> "reject", code |-> 200]
    /\ \E id \in DOMAIN users :
          /\ users[id].status = "rejected"
          /\ users[id].isActive
          /\ users[id].lastLogin # Unset
          /\ CorrectLoginsOf(users[id]) # {}
    /\ \E token \in Tokens : AdminSession(token)

(* C13: set-balance with an admin session overwrites the account's
   balance with the amount, whatever the balance was, and answers
   InvalidAmount (400), leaving the balance as it was, when the amount is
   absent or not a number. *)
C13_SetBalanceOverwrites ==
    \A token \in Tokens, id \in DOMAIN users, amount \in Amounts :
        AdminSession(token) =>
            LET r == SetBalance(users, admins, now, token, id, amount)
            IN  IF amount.type = "number"
                THEN /\ r.resp.code = 200
                     /\ r.users = WithField(users, id, "balance", amount.value)
                ELSE /\ r.resp.code = 400
                     /\ r.users = users

(* C14: of two concurrent set-balance calls on one account, with 10 and
   with 20, every interleaving ends with the balance at exactly 10 or 20,
   and the balance read between the two is the initial one, 10 or 20. *)
C14_ConcurrentSetBalance ==
    \A token \in Tokens, id \in DOMAIN users :
        AdminSession(token) =>
            \A order \in {<<10, 20>>, <<20, 10>>} :
                LET first  == SetBalance(users, admins, now, token, id, Amount(order[1]))
                    second == SetBalance(first.users, admins, now, token, id,
                                         Amount(order[2]))
                IN  /\ first.users[id].balance \in {users[id].balance, 10, 20}
                    /\ second.users[id].balance \in {10, 20}

SuperSession(token) == AdminSession(token) /\ RoleOf(token) = "super_admin"

\* Ids that were handed out and name no account any more.
Gone == {Uid(n) : n \in 1..(nextId - 1)} \ DOMAIN users

\* The user store after each request the server can be sent in this state.
StoresAfterAnyRequest ==
    {Signup(users, nextId, req).users : req \in SignupRequests}
    \cup {Login(users, settings, now, req).users : req \in LoginRequests}
    \cup {CheckStatus(users, req.identifier).users : req \in LoginRequests}
    \cup {o.users : o \in UNION {GuardedOutcomes(token) : token \in Tokens}}
    \cup {SetBalance(users, admins, now, p[1], p[2], p[3]).users :
            p \in Tokens \X UserIds \X Amounts}

\* On the store us the id names nothing: every mutation of it is NotFound.
NamesNothing(us, token, id) ==
    /\ \A body \in Bodies :
          /\ ApproveUser(us, admins, now, token, id, body)
                = [users |-> us, resp |-> NotFound]
          /\ RejectUser(us, admins, now, token, id, body)
                = [users |-> us, resp |-> NotFound]
    /\ ToggleActive(us, admins, now, token, id) = [users |-> us, resp |-> NotFound]
    /\ DeleteUser(us, admins, now, token, id) = [users |-> us, resp |-> NotFound]

\* On the store us the account's identifiers are unknown to login and to
\* check-status.
IdentifiersUnknown(us, user) ==
    /\ \A req \in LoginsOf(user) :
          IsInvalidCredentials(Login(us, settings, now, req).resp)
    /\ CheckStatus(us, user.phone).resp = NotFound
    /\ user.email # Unset => CheckStatus(us, user.email).resp = NotFound

(* C15 as claimed: once a super_admin delete of an account has succeeded,
   every later approve, reject, toggle-active and delete of the id is
   NotFound, every later login with the account's identifier is
   InvalidCredentials and check-status NotFound, here after the delete
   and after one more signup that follows it. *)
C15_DeleteIsTerminal ==
    \A token \in Tokens, id \in DOMAIN users :
        SuperSession(token) =>
            LET deleted == DeleteUser(users, admins, now, token, id)
            IN  /\ deleted.resp.code = 200
                /\ NamesNothing(deleted.users, token, id)
                /\ IdentifiersUnknown(deleted.users, users[id])
                /\ \A req \in SignupRequests :
                      LET later == Signup(deleted.users, nextId, req).users
                      IN  /\ id \notin DOMAIN later
                          /\ NamesNothing(later, token, id)
                          /\ IdentifiersUnknown(later, users[id])

(* C15, amended: a successful super_admin delete removes the account and
   nothing else; from then on approve, reject, toggle-active and delete of
   the id are NotFound and no request makes the id name an account again;
   login with the account's identifier is InvalidCredentials and
   check-status NotFound for as long as no account holds the identifier,
   which a later signup may register again under a new id. *)
C15_DeleteRemovesForGood ==
    /\ \A token \in Tokens, id \in DOMAIN users :
          SuperSession(token) =>
              LET deleted == DeleteUser(users, admins, now, token, id)
              IN  /\ deleted.resp.code = 200
                  /\ deleted.users = [i \in DOMAIN users \ {id} |-> users[i]]
                  /\ NamesNothing(deleted.users, token, id)
                  /\ IdentifiersUnknown(deleted.users, users[id])
                  /\ \A req \in SignupRequests :
                        LET later == Signup(deleted.users, nextId, req).users
                        IN  /\ id \notin DOMAIN later
                            /\ NamesNothing(later, token, id)
                            /\ (\A i \in DOMAIN later :
                                   /\ later[i].phone # users[id].phone
                                   /\ users[id].email # Unset
                                        => later[i].email # users[id].email)
                                 => IdentifiersUnknown(later, users[id])
    /\ \A id \in Gone :
          \A token \in Tokens : SuperSession(token) => NamesNothing(users, token, id)
    /\ Gone # {} => \A us \in StoresAfterAnyRequest : Gone \cap DOMAIN us = {}
    /\ \A req \in LoginRequests :
          (req.identifier # Unset /\ req.password # Unset /\ ~IsDemoLogin(req)
             /\ UnknownIdentifier(req.identifier))
          => /\ IsInvalidCredentials(Login(users, settings, now, req).resp)
             /\ CheckStatus(users, req.identifier).resp = NotFound

\* An approve was just answered NotFound while an id is gone, an account
\* created after it exists, and a super_admin session is at hand.
C15_Witness ==
    /\ last = [op |-> "approve", code |-> 404]
    /\ \E g \in Gone : \E id \in DOMAIN users : UserNo(id) > UserNo(g)
    /\ \E token \in Tokens : SuperSession(token)

\* The account as it would be with its lastLogin put back to that of old.
SaveLastLogin(new, old) == [new EXCEPT !.lastLogin = old.lastLogin]

(* C16: the status, isActive and balance of an existing account change
   only through an admin operation carried by an admin session: signup,
   login, refused login, demo login and check-status leave every existing
   account as it was, lastLogin of the account logged in excepted, and an
   admin request without an admin session changes nothing. *)
C16_OnlyAdminChangesAccounts ==
    /\ \A req \in SignupRequests :
          LET r == Signup(users, nextId, req)
          IN  \A id \in DOMAIN users : id \in DOMAIN r.users /\ r.users[id] = users[id]
    /\ \A req \in LoginRequests :
          LET r == Login(users, settings, now, req)
          IN  /\ DOMAIN r.users = DOMAIN users
              /\ \A id \in DOMAIN users :
                    SaveLastLogin(r.users[id], users[id]) = users[id]
              /\ CheckStatus(users, req.identifier).users = users
    /\ \A token \in Tokens :
          ~AdminSession(token) =>
              /\ \A o \in GuardedOutcomes(token) : o.users = users
              /\ \A p \in UserIds \X Amounts :
                    SetBalance(users, admins, now, token, p[1], p[2]).users = users

\* A second identity has just signed up while the first account is
\* approved, suspended and has logged in before.
C16_Witness ==
    /\ last = [op |-> "signup", code |-> 201]
    /\ \E id \in DOMAIN users :
          /\ \E other \in DOMAIN users : UserNo(other) > UserNo(id)
          /\ users[id].status = "approved"
          /\ ~users[id].isActive
          /\ users[id].lastLogin # Unset

\* The user store after each request other than a login.
StoresAfterOtherRequests ==
    {Signup(users, nextId, req).users : req \in SignupRequests}
    \cup {CheckStatus(users, req.identifier).users : req \in LoginRequests}
    \cup {o.users : o \in UNION {GuardedOutcomes(token) : token \in Tokens}}
    \cup {SetBalance(users, admins, now, p[1], p[2], p[3]).users :
            p \in Tokens \X UserIds \X Amounts}

(* C17: every successful login outside the demo branch sets the lastLogin
   of the account logged in to the current time and changes nothing else;
   a response carries a token only with lastLogin recorded; a refused
   login and a demo login leave the store as it was; no other request
   changes the lastLogin of an account. *)
C17_LastLoginOnSuccessOnly ==
    /\ \A req \in LoginRequests :
          LET r == Login(users, settings, now, req)
          IN  IF IssuesToken(r.resp) /\ ~IsDemoLogin(req)
              THEN \E id \in DOMAIN users :
                      /\ Names(req.identifier, users[id])
                      /\ r.resp.data.token = GenerateUserToken(id, now)
                      /\ r.users = WithField(users, id, "lastLogin", <<now>>)
              ELSE r.users = users
    /\ \A id \in DOMAIN users :
          MayLogin(users[id]) =>
              \A req \in CorrectLoginsOf(users[id]) :
                  Login(users, settings, now, req).users[id].lastLogin = <<now>>
    /\ \A us \in StoresAfterOtherRequests :
          \A id \in DOMAIN users \cap DOMAIN us :
              us[id].lastLogin = users[id].lastLogin

\* A login has just succeeded, later than the account's first one, and the
\* account's lastLogin is the current time.
C17_Witness ==
    /\ last = [op |-> "login", code |-> 200]
    /\ now > 0
    /\ \E id \in DOMAIN users :
          /\ users[id].lastLogin = <<now>>
          /\ GenerateUserToken(id, 0) \in UserTokens

(* C18: admin login knows no demo branch and no approval: with the
   password of an existing admin it succeeds and issues a privileged
   token exactly when the admin is active and answers 403 when not; an
   unknown username and a wrong password get the same 401
   InvalidCredentials; the demo user's credentials get that 401 too. *)
C18_AdminLoginChecksActiveOnly ==
    /\ \A req \in AdminLoginRequests :
          (req.username # Unset /\ req.password # Unset) =>
              LET r       == AdminLogin(admins, now, req)
                  holders == {a \in DOMAIN admins : admins[a].username = req.username}
              IN  /\ holders = {} =>
                        IsInvalidCredentials(r.resp) /\ r.admins = admins
                  /\ \A a \in holders :
                        IF admins[a].password # HashPassword(req.password)
                        THEN IsInvalidCredentials(r.resp) /\ r.admins = admins
                        ELSE /\ IssuesToken(r.resp) <=> admins[a].isActive
                             /\ admins[a].isActive =>
                                   /\ r.resp.code = 200
                                   /\ r.resp.data.token = GenerateAdminToken(a, now)
                                   /\ r.resp.data.token.payload.isAdmin
                                   /\ VerifyAdminToken(r.admins, now, r.resp.data.token).next
                             /\ ~admins[a].isActive =>
                                   r.resp.code = 403 /\ r.admins = admins
    /\ \A username \in {DemoPhone, DemoEmail} :
          LET r == AdminLogin(admins, now,
                              [username |-> username, password |-> DemoPassword])
          IN  IsInvalidCredentials(r.resp) /\ r.admins = admins

\* An admin login was just answered 403 after another admin had logged in,
\* and an inactive admin with a known password exists.
C18_Witness ==
    /\ last = [op |-> "admin-login", code |-> 403]
    /\ \E a \in DOMAIN admins : admins[a].lastLogin # Unset
    /\ \E a \in DOMAIN admins :
          /\ ~admins[a].isActive
          /\ \E req \in AdminLoginRequests :
                /\ req.username = admins[a].username
                /\ admins[a].password = HashPassword(req.password)

\* The settings store with the value of every document emptied.
Blanked(st) == [i \in DOMAIN st |-> [st[i] EXCEPT !.value = Unset]]

\* The value the fallback chain names: the persisted one if a document
\* with the key holds a non-empty value, else the environment's if set,
\* else the one derived from the port.
ChainValue(st, env) ==
    LET held == {i \in DOMAIN st : st[i].key = "webViewUrl" /\ st[i].value # Unset}
    IN  IF held # {} THEN st[CHOOSE i \in held : TRUE].value
        ELSE IF env # Unset THEN env
        ELSE AppGuideUrl(Port)

\* A login of an approved, active account with what the resolver returns
\* for the store, the environment and the lookup's fate.
ResolvedLogins(st, env, down) ==
    {LoginWith(users, WebViewUrlOf(Lookup(st, "webViewUrl", down), env, Port),
               now, req).resp :
        req \in UNION {CorrectLoginsOf(users[id]) :
                          id \in {i \in DOMAIN users : MayLogin(users[i])}}}

(* C19 as claimed: the resolver returns the persisted value when a
   setting with a non-empty value exists, else the environment's value
   when set, else the default of the port; when the lookup fails it
   returns the default of the port, and the login succeeds with it. *)
C19_ResolverLastResortOnFailure ==
    \A st \in {settings, Blanked(settings)}, env \in Envs, down \in BOOLEAN :
        LET expected == IF down THEN AppGuideUrl(Port) ELSE ChainValue(st, env)
        IN  /\ WebViewUrlOf(Lookup(st, "webViewUrl", down), env, Port) = expected
            /\ \A resp \in ResolvedLogins(st, env, down) :
                  resp.code = 200 /\ IssuesToken(resp)
                  /\ resp.data.webViewUrl = expected

(* C19, amended: the resolver returns the persisted value when a setting
   with a non-empty value exists, else the environment's value when set,
   else the default of the port; when the lookup fails it returns the
   environment's value when set and the default of the port otherwise;
   in every case the login succeeds with the value returned. *)
C19_ResolverFallbackChain ==
    \A st \in {settings, Blanked(settings)}, env \in Envs, down \in BOOLEAN :
        LET expected == IF down THEN ChainValue(<<>>, env) ELSE ChainValue(st, env)
        IN  /\ WebViewUrlOf(Lookup(st, "webViewUrl", down), env, Port) = expected
            /\ \A resp \in ResolvedLogins(st, env, down) :
                  resp.code = 200 /\ IssuesToken(resp)
                  /\ resp.data.webViewUrl = expected

\* A login has just succeeded while the store holds a webViewUrl set by an
\* admin that differs from the default.
C19_Witness ==
    /\ last = [op |-> "login", code |-> 200]
    /\ \E i \in DOMAIN settings :
          settings[i].key = "webViewUrl" /\ settings[i].value = Url1
    /\ \E id \in DOMAIN users :
          MayLogin(users[id]) /\ CorrectLoginsOf(users[id]) # {}

\* The signup is refused with a ValidationError carrying the message and
\* nothing is created.
RefusedAsInvalid(r, message) ==
    /\ r.resp.code = 400
    /\ r.resp.message = message
    /\ r.users = users
    /\ r.nextId = nextId

(* C20: a signup with an empty phone, or with a password shorter than six
   characters, is refused with a ValidationError (400) naming the first
   offending field, the phone before the password, and creates no
   account; this is so also when the phone is registered already, the
   duplicate check coming after validation. *)
C20_SignupValidatesFirst ==
    \A req \in SignupRequests :
        LET r == Signup(users, nextId, req)
        IN  /\ req.phone = <<>> => RefusedAsInvalid(r, "Phone number is required")
            /\ (req.phone # <<>> /\ Len(req.password) < MinPasswordLen)
                  => RefusedAsInvalid(r, "Password must be at least 6 characters")

\* A signup was just refused while a request at hand has a short password
\* and the phone of an existing account, and another has neither a phone
\* nor a password long enough.
C20_Witness ==
    /\ last = [op |-> "signup", code |-> 400]
    /\ \E req \in SignupRequests :
          /\ PhoneRegistered(req.phone)
          /\ Len(req.password) < MinPasswordLen
    /\ \E req \in SignupRequests :
          req.phone = <<>> /\ Len(req.password) < MinPasswordLen

\* A third casing of the email, and a phone that differs from Phone1 by a
\* trailing character.
EmailMixed == <<"a","@","X",".","I","o">>

PhoneLonger == Phone1 \o <<"5">>

\* What login and check-status can be handed as an identifier.
Identifiers ==
    {Phone1, DemoPhone, PhoneLonger, EmailLower, EmailUpper, EmailMixed, BadEmail}

Passwords == {Password1, WrongPassword}

\* The accounts an identifier stands for: by the lowercase form of the email
\* when it holds '@', by the very phone otherwise.
Resolved(identifier) ==
    IF Includes(identifier, "@")
    THEN {id \in DOMAIN users : users[id].email = ToLowerCase(identifier)}
    ELSE {id \in DOMAIN users : users[id].phone = identifier}

(* C21: an identifier is looked up as an email exactly when it holds '@'
   and as a phone otherwise, the email without regard to letter case and
   the phone exactly: login and check-status under any casing of an
   account's email reach that account, as its phone does; an identifier
   without '@' reaches an account only as its very phone; an identifier
   that stands for no account is unknown to both. *)
C21_IdentifierResolution ==
    /\ \A id \in DOMAIN users :
          users[id].email # Unset =>
              \A identifier \in {EmailLower, EmailUpper, EmailMixed} :
                  ToLowerCase(identifier) = users[id].email =>
                      /\ CheckStatus(users, identifier).resp.code = 200
                      /\ CheckStatus(users, identifier)
                            = CheckStatus(users, users[id].phone)
                      /\ \A password \in Passwords :
                            Login(users, settings, now,
                                  [identifier |-> identifier, password |-> password])
                              = Login(users, settings, now,
                                      [identifier |-> users[id].phone,
                                       password |-> password])
    /\ \A identifier \in Identifiers :
          LET c == CheckStatus(users, identifier)
          IN  /\ Cardinality(Resolved(identifier)) <= 1
              /\ \A id \in Resolved(identifier) :
                    /\ c.resp.code = 200
                    /\ c.resp.data.phone = users[id].phone
                    /\ c.resp.data.status = users[id].status
                    /\ ~IsInvalidCredentials(
                          Login(users, settings, now,
                                [identifier |-> identifier, password |-> Password1]).resp)
              /\ Resolved(identifier) = {} =>
                    /\ c.resp = NotFound
                    /\ \A password \in Passwords :
                          IsInvalidCredentials(
                              Login(users, settings, now,
                                    [identifier |-> identifier,
                                     password |-> password]).resp)
              /\ (~Includes(identifier, "@") /\ c.resp.code = 200)
                    => c.resp.data.phone = identifier

\* A check-status has just found an account while one account holds an
\* email that identifiers spell in other casings and another holds none.
C21_Witness ==
    /\ last = [op |-> "check-status", code |-> 200]
    /\ \E id \in DOMAIN users :
          users[id].email = EmailLower /\ users[id].phone = Phone1
    /\ \E id \in DOMAIN users : users[id].email = Unset

(* C22: check-status asks for no token; it answers 200 with the current
   status and isActive of the account the identifier stands for, whatever
   these are, and NotFound (404) when the identifier stands for none; in
   both cases it leaves every account as it was. *)
C22_CheckStatusReadsOnly ==
    \A identifier \in Identifiers :
        LET r == CheckStatus(users, identifier)
        IN  /\ r.users = users
            /\ r.resp.code \in {200, 404}
            /\ \A id \in DOMAIN users :
                  Names(identifier, users[id]) =>
                      /\ r.resp.code = 200
                      /\ r.resp.data.status = users[id].status
                      /\ r.resp.data.isActive = users[id].isActive
            /\ UnknownIdentifier(identifier) => r.resp = NotFound

\* A check-status was just answered NotFound while the store holds a
\* rejected, suspended account and an approved one.
C22_Witness ==
    /\ last = [op |-> "check-status", code |-> 404]
    /\ \E id \in DOMAIN users :
          users[id].status = "rejected" /\ ~users[id].isActive
    /\ \E id \in DOMAIN users : users[id].status = "approved"

\* Every stored password hash and every password a request has carried.
Secrets ==
    {users[id].password : id \in DOMAIN users}
    \cup {admins[a].password : a \in DOMAIN admins}
    \cup {Password1, WrongPassword, ShortPassword, DemoPassword, AdminPassword}
    \cup {HashPassword(DemoPassword)}

\* The record has a password field, or one of its text fields holds a
\* password or a hash.
RecordExposes(rec) ==
    \/ "password" \in DOMAIN rec
    \/ \E f \in DOMAIN rec \cap {"phone", "email", "username"} : rec[f] \in Secrets

\* The response carries a password or a hash: at its top level, in its
\* data, in the account, admin or account list of its data, or in the
\* payload of its token.
Exposes(resp) ==
    \/ RecordExposes(resp)
    \/ /\ "data" \in DOMAIN resp
       /\ \/ RecordExposes(resp.data)
          \/ "user" \in DOMAIN resp.data /\ RecordExposes(resp.data.user)
          \/ "admin" \in DOMAIN resp.data /\ RecordExposes(resp.data.admin)
          \/ /\ "users" \in DOMAIN resp.data
             /\ \E i \in DOMAIN resp.data.users : RecordExposes(resp.data.users[i])
          \/ /\ "token" \in DOMAIN resp.data
             /\ ~(DOMAIN resp.data.token.payload \subseteq {"id", "isAdmin"})

(* C23: no response of signup, login, demo login, check-status, admin
   login, list users, stats, verify, approve, reject, toggle-active,
   delete or the settings routes carries the password or the password
   hash of an account or of an admin, whatever the store holds and
   whatever the request. *)
C23_NoPasswordInResponses ==
    /\ \A req \in SignupRequests : ~Exposes(Signup(users, nextId, req).resp)
    /\ \A req \in LoginRequests : ~Exposes(Login(users, settings, now, req).resp)
    /\ \A identifier \in Identifiers : ~Exposes(CheckStatus(users, identifier).resp)
    /\ \A req \in AdminLoginRequests : ~Exposes(AdminLogin(admins, now, req).resp)
    /\ \A token \in Tokens : \A o \in GuardedOutcomes(token) : ~Exposes(o.resp)

\* The account list was just served while the store holds an account that
\* has logged in and an admin session is at hand.
C23_Witness ==
    /\ last = [op |-> "users", code |-> 200]
    /\ \E id \in DOMAIN users :
          users[id].lastLogin # Unset /\ users[id].password = HashPassword(Password1)
    /\ \E token \in Tokens : AdminSession(token)

\* The lifetime the token was signed with.
Lifetime(token) == token.exp - token.iat

Expired(token) == token.kind = "jwt" /\ now >= token.exp

BadSignature(token) == token.kind = "jwt" /\ token.sig # JwtSecret

(* C24: a token issued by login lives 30 days and carries no privilege
   flag, a token issued by admin login lives 7 days and carries it, so
   the two lifetimes differ; a token presented after its expiry, or with
   a signature that does not validate, is answered Unauthorized (401) by
   every route that takes a token, and nothing is read or modified. *)
C24_TokenLifetimesAndExpiry ==
    /\ \A req \in LoginRequests :
          LET resp == Login(users, settings, now, req).resp
          IN  IssuesToken(resp) =>
                 /\ Lifetime(resp.data.token) = 30
                 /\ ~Privileged(resp.data.token)
                 /\ \A areq \in AdminLoginRequests :
                       LET aresp == AdminLogin(admins, now, areq).resp
                       IN  IssuesToken(aresp) =>
                              Lifetime(aresp.data.token) < Lifetime(resp.data.token)
    /\ \A req \in AdminLoginRequests :
          LET resp == AdminLogin(admins, now, req).resp
          IN  IssuesToken(resp) =>
                 /\ Lifetime(resp.data.token) = 7
                 /\ Privileged(resp.data.token)
    /\ \A token \in UserTokens : ~Privileged(token)
    /\ \A token \in AdminTokens : Privileged(token)
    /\ \A token \in Tokens \cup {Forge(token) : token \in AdminTokens \cup UserTokens} :
          (Expired(token) \/ BadSignature(token)) =>
              \A o \in GuardedOutcomes(token) :
                  o.resp = Unauthorized /\ Untouched(o)

\* A verify was just answered 401 at a time when a user token and an admin
\* token signed at the start have both expired, a user token signed later
\* is still good and the admin token signed with it is not.
C24_Witness ==
    /\ last = [op |-> "verify", code |-> 401]
    /\ \E token \in UserTokens : token.iat = 0 /\ Expired(token)
    /\ \E token \in AdminTokens : token.iat = 0 /\ Expired(token)
    /\ \E token \in UserTokens :
          /\ ValidToken(token)
          /\ \E other \in AdminTokens : other.iat = token.iat /\ Expired(other)

\* Valid signups of a lifecycle: the phones of the admin specification,
\* and the demo phone with the demo password.
LifecycleSignups ==
    AdminSignupRequests
    \cup {[phone |-> DemoPhone, email |-> Unset, password |-> DemoPassword,
           username |-> Unset]}

\* The user store after a request that is no admin's act: a signup, a
\* login or an admin request without an admin session.
StoresAfterBystanders(us, nid) ==
    {us}
    \cup {Signup(us, nid, req).users : req \in SignupRequests}
    \cup {Login(us, settings, now, req).users : req \in LoginRequests}
    \cup {ApproveUser(us, admins, now, p[1], p[2], Unset).users :
            p \in {q \in Tokens \X UserIds : ~AdminSession(q[1])}}

\* The lifecycle of the account a fresh signup creates: its login is
\* PendingApproval until an admin acts, succeeds with a token and status
\* approved after approve, and is Rejected after a reject that follows.
LifecycleHolds(req) ==
    LET creds    == [identifier |-> req.phone, password |-> req.password]
        signedUp == Signup(users, nextId, req)
        id       == signedUp.resp.data.userId
    IN  /\ signedUp.resp.code = 201
        /\ \A us \in StoresAfterBystanders(signedUp.users, signedUp.nextId) :
              LET l == Login(us, settings, now, creds).resp
              IN  IsPendingApproval(l) /\ ~IssuesToken(l)
        /\ \A token \in Tokens :
              AdminSession(token) =>
                  LET approved == ApproveUser(signedUp.users, admins, now, token, id, Unset)
                      l1       == Login(approved.users, settings, now, creds)
                      rejected == RejectUser(l1.users, admins, now, token, id, Unset)
                      l2       == Login(rejected.users, settings, now, creds)
                  IN  /\ approved.resp.code = 200
                      /\ l1.resp.code = 200
                      /\ IssuesToken(l1.resp)
                      /\ l1.resp.data.user.status = "approved"
                      /\ rejected.resp.code = 200
                      /\ IsRejected(l2.resp) /\ ~IssuesToken(l2.resp)

(* C25: after a fresh valid signup, login with the same credentials is
   refused with PendingApproval (403) for as long as no admin acts; after
   an admin's approve of the account the login succeeds (200) with a token
   and status approved; after a reject that follows it is refused with
   Rejected. *)
C25_Lifecycle ==
    \A req \in LifecycleSignups :
        ~PhoneRegistered(req.phone) => LifecycleHolds(req)

\* Ids a request can name that name no account: ids of deleted accounts
\* and the id not handed out yet.
UnknownIds == UserIds \ DOMAIN users

\* Approve, reject and toggle-active of the id are NotFound and leave the
\* store as it was.
MutationsNotFound(token, id) ==
    /\ \A body \in Bodies :
          ApproveUser(users, admins, now, token, id, body)
              = [users |-> users, resp |-> NotFound]
    /\ \A reason \in Reasons :
          RejectUser(users, admins, now, token, id, reason)
              = [users |-> users, resp |-> NotFound]
    /\ ToggleActive(users, admins, now, token, id) = [users |-> users, resp |-> NotFound]

(* C26 as claimed: approve, reject, toggle-active and delete with the
   token of an admin session, on an id that names no account, each answer
   NotFound (404) and leave every account as it was. *)
C26_UnknownIdIsNotFound ==
    \A token \in Tokens, id \in UnknownIds :
        AdminSession(token) =>
            /\ MutationsNotFound(token, id)
            /\ DeleteUser(users, admins, now, token, id)
                  = [users |-> users, resp |-> NotFound]

(* C26, amended: approve, reject and toggle-active with the token of an
   admin session, and delete with the token of a super_admin session, on
   an id that names no account each answer NotFound (404) and leave every
   account as it was; delete with the token of an admin-role session
   answers Forbidden (403) and leaves every account as it was. *)
C26_UnknownIdNotFoundForRole ==
    \A token \in Tokens, id \in UnknownIds :
        AdminSession(token) =>
            LET deleted == DeleteUser(users, admins, now, token, id)
            IN  /\ MutationsNotFound(token, id)
                /\ deleted.users = users
                /\ IF RoleOf(token) = "super_admin"
                   THEN deleted.resp = NotFound
                   ELSE deleted.resp.code = 403

\* A toggle-active was just answered NotFound while an account exists, the
\* id of a deleted one is at hand, and so are a super_admin session and an
\* admin-role session.
C26_Witness ==
    /\ last = [op |-> "toggle-active", code |-> 404]
    /\ DOMAIN users # {}
    /\ Gone # {}
    /\ \E token \in Tokens : SuperSession(token)
    /\ \E token \in Tokens : AdminSession(token) /\ RoleOf(token) = "admin"

\* A generic internal failure: 500 with a fixed message and nothing else,
\* no string of the error that was thrown.
GenericFailure(resp, error) ==
    /\ resp.code = 500
    /\ DOMAIN resp = {"code", "success", "message"}
    /\ resp.message # error.message

\* Requests that get as far as their first store operation.
StoreSignups == {req \in SignupRequests : SignupErrors(req) = <<>>}

StoreLogins == {req \in LoginRequests : LoginErrors(req) = <<>> /\ ~IsDemoLogin(req)}

StoreAdminLogins == {req \in AdminLoginRequests : AdminLoginErrors(req) = <<>>}

(* C27: when a store operation throws inside signup, login, check-status,
   admin login or approve, in the middleware or behind it, the response
   is a generic internal failure that carries no string of the error, and
   the accounts and admins are left as they were. *)
C27_StoreFailureIsGeneric ==
    LET error == StoreUnreachable
    IN  /\ \A req \in StoreSignups :
              LET r == SignupFailing(users, nextId, req, error)
              IN  GenericFailure(r.resp, error) /\ r.users = users
        /\ \A req \in StoreLogins :
              LET r == LoginFailing(users, settings, now, req, error)
              IN  GenericFailure(r.resp, error) /\ r.users = users
        /\ \A identifier \in Identifiers :
              LET r == CheckStatusFailing(users, identifier, error)
              IN  GenericFailure(r.resp, error) /\ r.users = users
        /\ \A req \in StoreAdminLogins :
              LET r == AdminLoginFailing(admins, now, req, error)
              IN  GenericFailure(r.resp, error) /\ r.admins = admins
        /\ \A token \in Tokens, id \in UserIds, at \in {"middleware", "handler"} :
              AdminSession(token) =>
                  LET r == ApproveUserFailing(users, admins, now, token, id, at, error)
                  IN  GenericFailure(r.resp, error) /\ r.users = users

Statuses == {"pending", "approved", "rejected"}

(* C28: the status of every stored account is pending, approved or
   rejected, in every reachable state; the status demo is found in the
   response of the demo login and nowhere else: that login stores
   nothing, and every other response that reports a status reports one of
   the three. *)
C28_StatusDomain ==
    /\ \A id \in DOMAIN users : users[id].status \in Statuses
    /\ \A req \in LoginRequests :
          LET r == Login(users, settings, now, req)
          IN  IF IsDemoLogin(req)
              THEN r.resp.data.user.status = "demo" /\ r.users = users
              ELSE /\ IssuesToken(r.resp) => r.resp.data.user.status \in Statuses
                   /\ \A id \in DOMAIN r.users : r.users[id].status \in Statuses
    /\ \A req \in SignupRequests :
          LET r == Signup(users, nextId, req)
          IN  /\ r.resp.code = 201 => r.resp.data.status = "pending"
              /\ \A id \in DOMAIN r.users : r.users[id].status \in Statuses
    /\ \A identifier \in Identifiers \cup {DemoPhone, DemoEmail} :
          LET r == CheckStatus(users, identifier)
          IN  r.resp.code = 200 => r.resp.data.status \in Statuses

\* A login has just succeeded though no account has ever logged in, which
\* only the demo login does, while the store holds the demo phone as an
\* account and accounts that are approved and rejected.
C28_Witness ==
    /\ last = [op |-> "login", code |-> 200]
    /\ \A id \in DOMAIN users : users[id].lastLogin = Unset
    /\ PhoneRegistered(DemoPhone)
    /\ \E id \in DOMAIN users : users[id].status = "approved"
    /\ \E id \in DOMAIN users : users[id].status = "rejected"

\* The admins collection with the admin deactivated, and with the admin
\* removed.
Deactivated(adms, a) == [adms EXCEPT ![a].isActive = FALSE]

Removed(adms, a) == [i \in DOMAIN adms \ {a} |-> adms[i]]

AdminGone ==
    [code |-> 401, success |-> FALSE, message |-> "Admin account not found or inactive"]

(* C29: an unexpired privileged token authorizes an admin operation only
   while the admin it names exists and is active at the time of the
   request: with that admin active the token is accepted, and with the
   admin deactivated or removed every request with the token is answered
   401 and changes no account and no setting. *)
C29_TokenNeedsActiveAdmin ==
    \A token \in Tokens :
        (ValidToken(token) /\ Privileged(token) /\ token.payload.id \in DOMAIN admins) =>
            LET a == token.payload.id
            IN  /\ IF admins[a].isActive
                   THEN Verify(users, admins, now, token).resp.code = 200
                   ELSE \A o \in GuardedOutcomes(token) :
                            o.resp = AdminGone /\ Untouched(o)
                /\ \A adms \in {Deactivated(admins, a), Removed(admins, a)} :
                      \A o \in OutcomesUnder(adms, token) :
                          o.resp = AdminGone /\ Untouched(o)

\* An approve of an existing account was just answered 401 while an admin
\* who has been deactivated holds a token that has not expired, and
\* another admin holds one that is still accepted.
C29_Witness ==
    /\ last = [op |-> "approve", code |-> 401]
    /\ DOMAIN users # {}
    /\ \E token \in AdminTokens :
          ValidToken(token) /\ ~admins[token.payload.id].isActive
    /\ \E token \in AdminTokens : AdminSession(token)

\* The two signups ask for the same phone, or for the same email in its
\* lowercase form.
SameIdentity(req1, req2) ==
    \/ req1.phone = req2.phone
    \/ /\ req1.email # Unset /\ req2.email # Unset
       /\ ToLowerCase(req1.email) = ToLowerCase(req2.email)

DuplicateMessages ==
    {"Phone number already registered", "Email already registered",
     "Phone already registered"}

(* C30: of two signups handled at the same time with the same phone, or
   the same email in lowercase form, whose checks may both run before
   either create, at most one creates an account and the other is
   answered 400 with a duplicate message, never 500, under every
   interleaving; no two stored accounts ever share a phone or an email. *)
C30_ConcurrentSignupsStayUnique ==
    /\ \A i, j \in DOMAIN users :
          i # j =>
            /\ users[i].phone # users[j].phone
            /\ (users[i].email # Unset /\ users[j].email # Unset)
                  => users[i].email # users[j].email
    /\ \A s \in Slots :
          signups[s].pc = "done" =>
              /\ signups[s].code \in {201, 400}
              /\ signups[s].code = 400 => signups[s].message \in DuplicateMessages
    /\ \A s1, s2 \in Slots :
          (s1 # s2 /\ signups[s1].pc = "done" /\ signups[s2].pc = "done"
              /\ SameIdentity(signups[s1].req, signups[s2].req))
          => /\ ~(signups[s1].code = 201 /\ signups[s2].code = 201)
             /\ signups[s1].code = 400 \/ signups[s2].code = 400

\* Two signups with the same phone have both been answered, one with 201
\* and the other by the duplicate key handler, which only a create that
\* lost the race reaches.
C30_Witness ==
    \E s1, s2 \in Slots :
        /\ s1 # s2
        /\ signups[s1].pc = "done" /\ signups[s2].pc = "done"
        /\ signups[s1].req.phone = signups[s2].req.phone
        /\ signups[s1].code = 201
        /\ signups[s2].code = 400 /\ signups[s2].message = "Phone already registered"

---------------------------------------------------------------------------
(* C31 *)

\* A handler that has read an account and not yet saved it.
Holding(kind) == inflight.pc = "save" /\ inflight.kind = kind

\* The handlers that read an account and save it later.
SavingKinds == MutationKinds \cup {"login"}

\* C31: delete stays terminal under interleaving. Once a delete has
\* removed an account, no step brings a document with its id back: when
\* approve, reject, toggle-active or login has read the account and the
\* delete commits before the handler's save, the save fails, the store is
\* left as the delete left it, and the account never exists again.
C31_DeleteStaysTerminal ==
    [][/\ \A id \in Gone : id \notin DOMAIN users'
       /\ (inflight.pc = "save" /\ inflight.doc.id \in Gone /\ inflight' = Idle)
              => /\ users' = users
                 /\ last' = [op |-> inflight.kind, code |-> 500]]_vars

\* A handler's save has just failed on an account deleted after the read.
C31_Witness ==
    /\ last.op \in SavingKinds
    /\ last.code = 500
    /\ inflight = Idle
    /\ Gone # {}

---------------------------------------------------------------------------
(* C32 *)

\* The one field each handler assigns.
FieldOf(kind) ==
    CASE kind = "login"         -> "lastLogin"
      [] kind = "approve"       -> "status"
      [] kind = "reject"        -> "status"
      [] kind = "toggle-active" -> "isActive"

\* The stored account differs from what the handler in flight read: a
\* mutation of the account was committed after the read.
MutatedSinceRead ==
    /\ inflight.pc = "save"
    /\ inflight.doc.id \in DOMAIN users
    /\ users[inflight.doc.id] # inflight.read

\* C32: a handler's save writes only the field the handler assigned. A
\* login that read an approved, active account and saves after a reject or
\* a toggle-active of the account was committed sets lastLogin and leaves
\* status and isActive as the admin set them, not as the login read them;
\* an approve or reject saving after a toggle-active, or a toggle-active
\* saving after an approve or reject, leaves the other's field as stored,
\* so both mutations take effect.
C32_SaveWritesOwnFieldOnly ==
    (inflight.pc = "save" /\ inflight.doc.id \in DOMAIN users) =>
        LET id    == inflight.doc.id
            field == FieldOf(inflight.kind)
            saved == UserSave(users, inflight.read, inflight.doc)
        IN  /\ saved.ok
            /\ \A f \in DOMAIN inflight.read :
                   inflight.doc[f] # inflight.read[f] => f = field
            /\ saved.users \in {users, WithField(users, id, field, inflight.doc[field])}
            /\ inflight.doc[field] # inflight.read[field]
                   => saved.users[id][field] = inflight.doc[field]
            /\ inflight.kind = "login"
                   => /\ inflight.read.status = "approved" /\ inflight.read.isActive
                      /\ saved.users[id].status = users[id].status
                      /\ saved.users[id].isActive = users[id].isActive
            /\ inflight.kind \in {"approve", "reject"}
                   => saved.users[id].isActive = users[id].isActive
            /\ inflight.kind = "toggle-active"
                   => /\ saved.users[id].status = users[id].status
                      /\ saved.users[id].isActive = ~inflight.read.isActive

\* A login has read an approved, active account, and a reject or a
\* toggle-active of the account was committed before the login's save.
C32_Witness ==
    /\ Holding("login")
    /\ MutatedSinceRead
    /\ \/ users[inflight.doc.id].status = "rejected"
       \/ ~users[inflight.doc.id].isActive

---------------------------------------------------------------------------
(* C33 *)

\* The store after toggle-active on the account n times in a row.
RECURSIVE ToggledTimes(_, _, _, _)
ToggledTimes(us, token, id, n) ==
    IF n = 0 THEN us
    ELSE ToggleActive(ToggledTimes(us, token, id, n - 1), admins, now, token, id).users

\* Every correct login of the account is given a token.
LogsIn(us, id) ==
    \A req \in CorrectLoginsOf(us[id]) : IssuesToken(Login(us, settings, now, req).resp)

\* Every correct login of the account is refused as deactivated.
LockedOut(us, id) ==
    \A req \in CorrectLoginsOf(us[id]) : IsDeactivated(Login(us, settings, now, req).resp)

\* C33: toggle-active applied twice in a row to an account restores its
\* isActive, the first call having negated it; an approved account that
\* can log in is locked out after the first call and logs in again with
\* the same credentials after the second, and an approved, deactivated
\* one logs in after the first call and is locked out again after the
\* second.
C33_ToggleIsInvolution ==
    \A token \in {t \in Tokens : AdminSession(t)} :
        \A id \in DOMAIN users :
            LET once  == ToggledTimes(users, token, id, 1)
                twice == ToggledTimes(users, token, id, 2)
            IN  /\ once[id].isActive = ~users[id].isActive
                /\ twice[id].isActive = users[id].isActive
                /\ CorrectLoginsOf(twice[id]) = CorrectLoginsOf(users[id])
                /\ users[id].status = "approved" =>
                      /\ CorrectLoginsOf(users[id]) # {}
                      /\ IF users[id].isActive
                         THEN LogsIn(users, id) /\ LockedOut(once, id) /\ LogsIn(twice, id)
                         ELSE LockedOut(users, id) /\ LogsIn(once, id) /\ LockedOut(twice, id)

\* A toggle has just reactivated an account: every stored account is
\* approved and active, one of them made so by the toggle answered last,
\* and an account has logged in.
C33_Witness ==
    /\ last = [op |-> "toggle-active", code |-> 200]
    /\ users # <<>>
    /\ \A id \in DOMAIN users : users[id].status = "approved" /\ users[id].isActive
    /\ \E id \in DOMAIN users : users[id].lastLogin # Unset

---------------------------------------------------------------------------
(* C34 *)

\* The counts add up: every account is pending, approved or rejected, and
\* the active ones are among the approved.
Consistent(data) ==
    /\ data.totalUsers = data.pendingUsers + data.approvedUsers + data.rejectedUsers
    /\ data.activeUsers <= data.approvedUsers

\* data when every count of the handler reads the store us.
Uninterrupted(us) ==
    StatsData([k \in DOMAIN StatsQueries |-> CountDocuments(us, StatsQueries[k])])

\* C34 as claimed: every stats response is internally consistent, also
\* when signups, approvals, rejections or deletes run between the
\* handler's count queries.
C34_StatsConsistent ==
    inflight.pc = "answered" => Consistent(inflight.data)

\* C34: a stats response whose counts all read the same state of the
\* store is internally consistent: totalUsers is the sum of pendingUsers,
\* approvedUsers and rejectedUsers, and activeUsers, the approved accounts
\* with isActive set, is at most approvedUsers. A response whose counts
\* read the store that is there now is one of them.
C34_StatsConsistentOnOneState ==
    /\ Consistent(Uninterrupted(users))
    /\ \A token \in {t \in Tokens : AdminSession(t)} :
           Stats(users, admins, now, token).resp.data = Uninterrupted(users)
    /\ (inflight.pc = "answered" /\ inflight.data = Uninterrupted(users))
           => Consistent(inflight.data)

\* The handler has answered with the counts of the store as it is, an
\* approved account among them.
C34_Witness ==
    /\ inflight.pc = "answered"
    /\ inflight.data = Uninterrupted(users)
    /\ inflight.data.approvedUsers > 0

---------------------------------------------------------------------------
(* C35 *)

\* The persisted documents with the key.
Held(st, key) == {i \in DOMAIN st : st[i].key = key}

\* C35: at most one persisted setting has the key webViewUrl, also when
\* the GET settings handler or the update handler found none and another
\* request created it before the handler's own create, which is then
\* refused and answered 500; the persisted value is never empty and is
\* what an approved, active account's login returns whatever the
\* environment's value is; and an update with a missing or malformed URL
\* is answered 400 and leaves the settings as they are.
C35_OneWebViewUrlSetting ==
    /\ Cardinality(Held(settings, "webViewUrl")) <= 1
    /\ inflight.pc = "create-setting" =>
          LET made == CreateSetting(settings, now, "webViewUrl", inflight.value,
                                    WebViewDescription, inflight.admin)
          IN  /\ made.ok <=> Held(settings, "webViewUrl") = {}
              /\ Cardinality(Held(made.settings, "webViewUrl")) = 1
    /\ \A i \in Held(settings, "webViewUrl") :
          /\ settings[i].value # Unset
          /\ \A env \in Envs :
                /\ WebViewUrlOf(Lookup(settings, "webViewUrl", FALSE), env, Port)
                       = settings[i].value
                /\ \A resp \in ResolvedLogins(settings, env, FALSE) :
                       resp.code = 200 /\ resp.data.webViewUrl = settings[i].value
    /\ \A token \in {t \in Tokens : AdminSession(t)} :
          \A url \in {Unset, BadUrl} :
              LET r == PutWebViewUrl(settings, admins, now, token, url)
              IN  r.resp.code = 400 /\ r.settings = settings

\* A create has just been refused because the setting was created after
\* the handler's find: one setting is stored, and an approved account can
\* log in.
C35_Witness ==
    /\ last.op \in {"settings", "webview-url"}
    /\ last.code = 500
    /\ inflight = Idle
    /\ Cardinality(Held(settings, "webViewUrl")) = 1
    /\ \E id \in DOMAIN users : MayLogin(users[id])
    /\ \E token \in Tokens : AdminSession(token)

=============================================================================
